---- MODULE Spec2Model ----
(***************************************************************************)
(* Verification model of the diffusion anomaly-detection core:             *)
(*   - AdaptiveNoiseGenerator (noise.py and its copy in forward_process.py)*)
(*   - AdaptiveForwardDiffusion.forward_diffusion_sample                   *)
(*   - the reverse samplers DA_generalized_steps / my_generalized_steps    *)
(*   - the heat-map engine of anomaly_map.py, compute_pro, get_loss and    *)
(*     the trainer                                                         *)
(* Real numbers are fixed-point integers with two decimal digits           *)
(* (Unit = 1.00); NaN is a distinguished value that every arithmetic       *)
(* operator propagates, as IEEE arithmetic does.                           *)
(***************************************************************************)
EXTENDS Integers, Sequences, FiniteSets, TLC

VARIABLES
    \* ---- one AdaptiveNoiseGenerator instance ----
    cls,            \* the class of the instance: "noise" or "forward_process"
    noise_history,  \* self.noise_history: the tensors, named by the call that made them
    ncalls,         \* number of get_noise calls that have returned
    ret,            \* the noise the last get_noise call returned (NoNoise before any)
    warned,         \* the last call printed the 'Unknown noise type' warning
    call,           \* noise_type and x.shape of the last get_noise call
    rng,            \* state of the global torch random generator
    \* ---- one forward_diffusion_sample call ----
    fwd,            \* inputs and outputs of the last forward_diffusion_sample call
    \* ---- one reverse-sampler call, run twice side by side ----
    smp,            \* the sampler's inputs, loop position and histories
    \* ---- the heat-map engine, the metrics, the loss and the trainer ----
    hm,             \* the last heat-map call: its inputs and what it returned
    pro,            \* the last compute_pro call: its inputs and the score
    los,            \* the last get_loss call: the three terms and the loss
    trn             \* one trainer call: its position and what it has done so far

gvars == <<cls, noise_history, ncalls, ret, warned, call, rng>>
xvars == <<hm, pro, los, trn>>
vars == <<cls, noise_history, ncalls, ret, warned, call, rng, fwd, smp, hm, pro, los, trn>>

(***************************************************************************)
(* Fixed-point arithmetic with NaN                                         *)
(***************************************************************************)
Unit == 10 * 10          \* 1.00
NaN == -(10 ^ 9)     \* a value no computation of the model reaches

Min2(a, b) == IF a < b THEN a ELSE b
Max2(a, b) == IF a > b THEN a ELSE b

IsNum(a) == a # NaN
Abs(a) == IF a < 0 THEN -a ELSE a
\* integer division rounding toward zero
Quot(a, b) == IF (a >= 0) = (b > 0) THEN Abs(a) \div Abs(b) ELSE -(Abs(a) \div Abs(b))

Add(a, b) == IF a = NaN \/ b = NaN THEN NaN ELSE a + b
Sub(a, b) == IF a = NaN \/ b = NaN THEN NaN ELSE a - b
Mul(a, b) == IF a = NaN \/ b = NaN THEN NaN ELSE Quot(a * b, Unit)
\* x / 0 is +-inf or NaN in IEEE arithmetic; the model folds both into NaN
Div(a, b) == IF a = NaN \/ b = NaN \/ b = 0 THEN NaN ELSE Quot(a * Unit, b)

\* the largest r in lo .. hi with r * r <= n, by bisection
RECURSIVE ISqrtIn(_, _, _)
ISqrtIn(n, lo, hi) ==
    IF lo >= hi THEN lo
    ELSE LET mid == (lo + hi + 1) \div 2
         IN IF mid * mid <= n THEN ISqrtIn(n, mid, hi) ELSE ISqrtIn(n, lo, mid - 1)
ISqrt(n) == ISqrtIn(n, 0, Min2(n, 46340))
\* torch.sqrt: NaN for a negative radicand
\* the square roots of 0.00 .. 2.00, computed once
SqrtTable == [a \in 0 .. 2 * Unit |-> ISqrt(a * Unit)]
Sqrt(a) ==
    IF a = NaN THEN NaN
    ELSE IF a < 0 THEN NaN
    ELSE IF a <= 2 * Unit THEN SqrtTable[a] ELSE ISqrt(a * Unit)


(***************************************************************************)
(* AdaptiveNoiseGenerator                                                  *)
(***************************************************************************)
HistoryCap == 100        \* the capacity tested before the append
MaxCalls == 103          \* get_noise calls explored on one instance
RngMod == 3              \* distinct generator states kept apart

Classes == {"noise", "forward_process"}
KnownTypes == {"adaptive_gaussian", "gaussian", "uniform", "laplace", "mixture", "perlin"}
NoiseTypes == KnownTypes \cup {"salt_pepper"}
NoSeed == -1             \* seed=None
Seeds == {NoSeed, 0, 1}
\* torch.std(x) of the inputs tried: 0, 50, 300
SignalStds == {0, 50 * Unit, 300 * Unit}

\* x.shape of the inputs tried
Shapes == {<<1, 1, 4, 4>>, <<2, 3, 2, 2>>}

NoNoise == [id |-> 0, dist |-> "none", std |-> 0, draw |-> 0, shape |-> <<>>]
NoCall == [type |-> "none", shape |-> <<>>]

adaptation_rate == 1     \* 0.01
min_std == 1             \* 0.01
max_std == 2 * Unit      \* 2.0

\* torch.clamp(v, lo, hi)
Clamp(v, lo, hi) == IF v = NaN THEN NaN ELSE Min2(Max2(v, lo), hi)

\* calculate_adaptive_std: 1.0 on an empty history, else the clamped signal std
calculate_adaptive_std(hist, signal_std) ==
    IF Len(hist) > 0
    THEN Clamp(Mul(signal_std, adaptation_rate), min_std, max_std)
    ELSE Unit

\* torch.manual_seed(seed) when a seed is given
Reseed(r, seed) == IF seed # NoSeed THEN seed ELSE r

\* the if/elif chain of get_noise in noise.py: the distribution drawn from
NoiseDist(type) ==
    IF type \in KnownTypes THEN type ELSE "gaussian"

\* the if/else of get_noise in forward_process.py: only two branches
FpNoiseDist(type) ==
    IF type = "adaptive_gaussian" THEN "adaptive_gaussian" ELSE "gaussian"

DistOf(c, type) == IF c = "noise" THEN NoiseDist(type) ELSE FpNoiseDist(type)

\* the else branch of noise.py prints a warning; forward_process.py prints nothing
Warns(c, type) == c = "noise" /\ type \notin KnownTypes

\* the noise tensor built by call number n
MakeNoise(c, hist, n, type, shape, signal_std, r) ==
    [id   |-> n,
     shape |-> shape,
     dist |-> DistOf(c, type),
     std  |-> IF type = "adaptive_gaussian"
              THEN calculate_adaptive_std(hist, signal_std) ELSE Unit,
     draw |-> r]

\* mutant: the capacity test is off by one (> instead of >=)
EvictOffByOne(hist) == IF Len(hist) > HistoryCap THEN Tail(hist) ELSE hist

\* mutant: pop() instead of pop(0), the newest entry goes
EvictNewest(hist) ==
    IF Len(hist) >= HistoryCap THEN SubSeq(hist, 1, Len(hist) - 1) ELSE hist

\* if len(self.noise_history) >= 100: self.noise_history.pop(0)
Evict(hist) == IF Len(hist) >= HistoryCap THEN Tail(hist) ELSE hist

\* the history update that closes get_noise
PushHistory(hist, n) == Append(Evict(hist), n)

\* one get_noise call on the instance
GetNoise ==
    /\ ncalls < MaxCalls
    /\ \E type \in NoiseTypes, seed \in Seeds, shape \in Shapes, signal_std \in SignalStds :
         LET r == Reseed(rng, seed)
             noise == MakeNoise(cls, noise_history, ncalls + 1, type, shape, signal_std, r)
         IN /\ ret' = noise
            /\ call' = [type |-> type, shape |-> shape]
            /\ warned' = Warns(cls, type)
            /\ noise_history' = PushHistory(noise_history, noise.id)
            /\ rng' = (r + 1) % RngMod
            /\ ncalls' = ncalls + 1
    /\ UNCHANGED <<cls, fwd, smp, xvars>>

InitGen ==
    /\ cls \in Classes
    /\ noise_history = <<>>
    /\ ncalls = 0
    /\ ret = NoNoise
    /\ warned = FALSE
    /\ call = NoCall
    /\ rng \in 0 .. RngMod - 1

NoFwd == [called |-> FALSE]
NoSmp == [active |-> FALSE]
NoHm == [op |-> "none"]
NoPro == [called |-> FALSE]
NoLos == [called |-> FALSE]
NoTrn == [pc |-> "idle"]
\* the parts of the program a specification does not exercise
IdleX == hm = NoHm /\ pro = NoPro /\ los = NoLos /\ trn = NoTrn

\* the generator driven by direct get_noise calls
InitNoise == InitGen /\ fwd = NoFwd /\ smp = NoSmp /\ IdleX
NextNoise == GetNoise
SpecNoise == InitNoise /\ [][NextNoise]_vars

(***************************************************************************)
(* AdaptiveForwardDiffusion.forward_diffusion_sample                       *)
(* A tensor is a sequence of batch elements, each a sequence of pixels.    *)
(***************************************************************************)
MaxFwdCalls == 2         \* forward_diffusion_sample calls explored on one instance
BatchSizes == {1, 2}      \* batch sizes explored
\* noise types passed by the forward process: both branches of its generator,
\* one name the other class knows and one nobody knows
FwdNoiseTypes == {"adaptive_gaussian", "uniform", "salt_pepper"}

\* the schedule tables: constant_dict['sqrt_alphas_cumprod'] and
\* constant_dict['sqrt_one_minus_alphas_cumprod'], index 0 as in the example
sqrt_alphas_cumprod == <<99, 80>>
sqrt_one_minus_alphas_cumprod == <<14, 60>>
ScheduleLen == Len(sqrt_alphas_cumprod)

\* the pixels of one batch element of x_0, and one element of torch.randn_like
ImageRows == {<<0, 0>>, <<Unit, -150>>}
GaussRows == {<<Unit, Unit>>, <<-Unit, Unit \div 2>>}

RECURSIVE SumSeq(_)
SumSeq(q) == IF q = <<>> THEN 0 ELSE Head(q) + SumSeq(Tail(q))

RECURSIVE Flatten(_)
Flatten(x) == IF x = <<>> THEN <<>> ELSE Head(x) \o Flatten(Tail(x))

\* torch.std over every element of the tensor (unbiased; NaN for one element)
TensorStd(x) ==
    LET v == Flatten(x)
        n == Len(v)
        mean == Quot(SumSeq(v), n)
        sq == [i \in 1 .. n |-> (v[i] - mean) * (v[i] - mean)]
    IN IF n < 2 THEN NaN ELSE ISqrt(Quot(SumSeq(sq), n - 1))

\* vals.gather(-1, t): one table entry per batch element (tables are 0-based)
Gather(vals, t) == [i \in 1 .. Len(t) |-> vals[t[i] + 1]]

\* mutant: a scalar lookup, the first element's step serves the whole batch
GatherFirst(vals, t) == [i \in 1 .. Len(t) |-> vals[t[1] + 1]]

\* get_index_from_list: gather, then reshape to [batch, 1, 1, 1]
get_index_from_list(vals, t) == Gather(vals, t)

\* coef of shape [batch,1,1,1] times a tensor: broadcast over each element's pixels
ScaleRows(coef, x) ==
    [i \in 1 .. Len(x) |-> [p \in 1 .. Len(x[i]) |-> Mul(coef[i], x[i][p])]]

\* elementwise sum of two tensors of one shape
AddRows(a, b) ==
    [i \in 1 .. Len(a) |-> [p \in 1 .. Len(a[i]) |-> Add(a[i][p], b[i][p])]]

\* torch.randn_like(x) * std
ScaleAll(z, std) ==
    [i \in 1 .. Len(z) |-> [p \in 1 .. Len(z[i]) |-> Mul(z[i][p], std)]]

\* mutant: the two schedule tables exchanged
NoisedImageSwapped(x_0, t, noise) ==
    AddRows(ScaleRows(get_index_from_list(sqrt_one_minus_alphas_cumprod, t), x_0),
            ScaleRows(get_index_from_list(sqrt_alphas_cumprod, t), noise))

\* x = sqrt_alphas_cumprod_t * x_0 + sqrt_one_minus_alphas_cumprod_t * noise
NoisedImage(x_0, t, noise) ==
    AddRows(ScaleRows(get_index_from_list(sqrt_alphas_cumprod, t), x_0),
            ScaleRows(get_index_from_list(sqrt_one_minus_alphas_cumprod, t), noise))

ShapeOf(x) == <<Len(x), Len(x[1])>>

\* one forward_diffusion_sample call on an AdaptiveForwardDiffusion instance:
\* the get_noise call on its generator, the two lookups and the sum
ForwardDiffusionSample ==
    /\ ncalls < MaxFwdCalls
    /\ \E n \in BatchSizes, type \in FwdNoiseTypes :
       \E x_0 \in [1 .. n -> ImageRows], z \in [1 .. n -> GaussRows],
          t \in [1 .. n -> 0 .. ScheduleLen - 1] :
         LET gen == MakeNoise(cls, noise_history, ncalls + 1, type, ShapeOf(x_0),
                              TensorStd(x_0), rng)
             noise == ScaleAll(z, gen.std)
         IN /\ ret' = gen
            /\ warned' = Warns(cls, type)
            /\ call' = [type |-> type, shape |-> ShapeOf(x_0)]
            /\ noise_history' = PushHistory(noise_history, gen.id)
            /\ rng' = (rng + 1) % RngMod
            /\ ncalls' = ncalls + 1
            /\ fwd' = [called |-> TRUE, x_0 |-> x_0, t |-> t,
                       x_t |-> NoisedImage(x_0, t, noise), noise |-> noise]
    /\ UNCHANGED <<cls, smp, xvars>>

\* AdaptiveForwardDiffusion.__init__ builds the generator of forward_process.py
InitFwd == InitGen /\ cls = "forward_process" /\ fwd = NoFwd /\ smp = NoSmp /\ IdleX
NextFwd == ForwardDiffusionSample
SpecFwd == InitFwd /\ [][NextFwd]_vars

(***************************************************************************)
(* Reverse samplers: DA_generalized_steps and my_generalized_steps         *)
(* A state is a sequence with one value per batch element.  The sampler is *)
(* run twice side by side (runs A and B) on inputs that agree on batch     *)
(* element 1, with independent Gaussian draws.                             *)
(***************************************************************************)
MaxSeqLen == 3           \* longest step sequence explored

\* b, the beta schedule: 0.1, 0.2, 0.3, 0.4
betas == <<10, 20, 30, 40>>

\* cumulative alpha at step t: the product of (1 - beta[k]) for k = 0 .. t,
\* and 1 for the sentinel step -1
RECURSIVE compute_alpha(_)
compute_alpha(t) ==
    IF t < 0 THEN Unit ELSE Mul(compute_alpha(t - 1), Unit - betas[t + 1])

\* the per-sample variant called by my_generalized_steps
compute_alpha2(t) == compute_alpha(t)

\* the denoisers tried: model(xt, t) -> et, each a function of its inputs
Models == {"zero", "bystep", "tenth", "mix"}
\* the denoisers that compute each batch element from that element alone
ElementwiseModels == {"zero", "bystep", "tenth"}

\* denoisers that fail: on every call, or on every call after the first
RaisingModels == {"raise", "raise_later"}
\* call number index + 1 of model(xt, t) raises instead of returning
ModelRaises(kind, index) ==
    kind = "raise" \/ (kind = "raise_later" /\ index > 0)

HasNaN(v) == \E b \in 1 .. Len(v) : v[b] = NaN
SumVec(v) == IF HasNaN(v) THEN NaN ELSE SumSeq(v)

Model(kind, xt, t) ==
    [b \in 1 .. Len(xt) |->
        IF xt[b] = NaN THEN NaN
        ELSE CASE kind \in {"zero", "raise_later"} -> 0
               [] kind = "bystep" -> 10 * (t[b] + 1)
               [] kind = "tenth" -> Div(xt[b], 10 * Unit)
               [] OTHER -> Div(SumVec(xt), 10 * Unit)]

\* torch.norm: the 2-norm over every element of the tensor, batch included
Norm(v) ==
    IF HasNaN(v) THEN NaN
    ELSE ISqrt(SumSeq([b \in 1 .. Len(v) |-> v[b] * v[b]]))

\* torch.tanh at steps of 0.1, saturated at 3.0
TanhTable == <<0, 10, 20, 29, 38, 46, 54, 60, 66, 72, 76, 80, 83, 86, 89, 91,
               92, 94, 95, 96, 96, 97, 98, 98, 98, 99, 99, 99, 99, 99, 100>>
Tanh(z) ==
    IF z = NaN THEN NaN
    ELSE IF z < 0 THEN -TanhTable[Min2((-z) \div 10, 30) + 1]
    ELSE TanhTable[Min2(z \div 10, 30) + 1]

\* Python's min(a, b) and max(a, b): b is taken only when b < a (b > a),
\* which is false when b is NaN
PyMin(a, b) == IF b # NaN /\ b < a THEN b ELSE a
PyMax(a, b) == IF b # NaN /\ b > a THEN b ELSE a

\* signal_energy / (noise_energy + 1e-8) for noise_energy = 0
Huge == 10 ^ 6

\* mutant: the tanh value is returned without the clamp
UnclampedNoiseScale(xt, et) ==
    LET noise_energy == Norm(et)
        signal_energy == Norm(xt)
    IN Tanh(Mul(IF noise_energy = NaN \/ signal_energy = NaN THEN NaN
                ELSE IF noise_energy = 0
                     THEN (IF signal_energy = 0 THEN 0 ELSE Huge)
                     ELSE Div(signal_energy, noise_energy), 10))

compute_adaptive_noise_scale(xt, et) ==
    LET noise_energy == Norm(et)
        signal_energy == Norm(xt)
        signal_to_noise_ratio ==
            IF noise_energy = NaN \/ signal_energy = NaN THEN NaN
            ELSE IF noise_energy = 0
                 THEN (IF signal_energy = 0 THEN 0 ELSE Huge)
                 ELSE Div(signal_energy, noise_energy)
        adaptive_scale == Tanh(Mul(signal_to_noise_ratio, 10))
    IN PyMax(50, PyMin(150, adaptive_scale))

\* mutant: the factor eta is dropped from c1
C1FormulaNoEta(eta, at, at_next) ==
    Sqrt(Div(Mul(Sub(Unit, Div(at, at_next)), Sub(Unit, at_next)), Sub(Unit, at)))

\* c1 = eta * sqrt((1 - at / at_next) * (1 - at_next) / (1 - at))
C1Formula(eta, at, at_next) ==
    Mul(eta, Sqrt(Div(Mul(Sub(Unit, Div(at, at_next)), Sub(Unit, at_next)),
                      Sub(Unit, at))))

\* c2 = sqrt((1 - at_next) - c1 ** 2)
C2Formula(c1, at_next) == Sqrt(Sub(Sub(Unit, at_next), Mul(c1, c1)))

\* mutant: the DA variant loses its index == 0 branch
StepCoefsNoFirstHop(variant, index, eta, at, at_next) ==
    [c1 |-> C1Formula(eta, at, at_next),
     c2 |-> C2Formula(C1Formula(eta, at, at_next), at_next)]

\* the coefficients of iteration number index (0 for the first): the DA
\* variant zeroes both in its first iteration, the other never does
StepCoefs(variant, index, eta, at, at_next) ==
    IF variant = "DA" /\ index = 0
    THEN [c1 |-> 0, c2 |-> 0]
    ELSE LET c1 == C1Formula(eta, at, at_next)
         IN [c1 |-> c1, c2 |-> C2Formula(c1, at_next)]

\* seq_next = [-1] + list(seq[:-1])
SeqNext(seq) == <<-1>> \o SubSeq(seq, 1, Len(seq) - 1)

\* mutant: the sequence is walked front to back
NotReversed(q) == q

\* reversed(q)
Reversed(q) == [i \in 1 .. Len(q) |-> q[Len(q) + 1 - i]]

\* the step fed to the model in iteration number index, per batch element
\* DA: enumerate(zip(reversed(seq), reversed(seq_next))), t = ones(n) * i
\* my: for idx in reversed(range(m)), t = [s[idx] for s in seq]
StepT(variant, seq, index) ==
    IF variant = "DA"
    THEN [b \in 1 .. Len(seq) |-> Reversed(seq[1])[index + 1]]
    ELSE LET idx == Len(seq[1]) - 1 - index
         IN [b \in 1 .. Len(seq) |-> seq[b][idx + 1]]

\* the next step paired with it
StepNextT(variant, seq, index) ==
    IF variant = "DA"
    THEN [b \in 1 .. Len(seq) |-> Reversed(SeqNext(seq[1]))[index + 1]]
    ELSE LET idx == Len(seq[1]) - 1 - index
         IN [b \in 1 .. Len(seq) |-> IF idx = 0 THEN -1 ELSE seq[b][idx]]

\* mutant: every iteration restarts from the caller's x
FedFirst(xs) == xs[1]

\* xt = xs[-1]
FedState(xs) == xs[Len(xs)]

\* the one element of a singleton set: {e : v \in {d}} evaluates d once
The(S) == CHOOSE v \in S : TRUE

\* the arithmetic of one loop body on one batch element: xt, y, et and g are
\* that element's values, adaptive_eta2 is eta2 * noise_scale
ElementStep(variant, index, eta, adaptive_eta2, at, at_next, xt, y, et, g) ==
    The({ The({ The({
        [x0_t |-> x0_t,
         xt_next |-> Add(Add(Mul(Sqrt(at_next), x0_t), Mul(c.c1, g)),
                         Mul(c.c2, et_hat)),
         c1 |-> c.c1, c2 |-> c.c2, at |-> at, at_next |-> at_next]
        : x0_t \in {Div(Sub(xt, Mul(et_hat, sqrt_1m_at)), sqrt_at)},
          c \in {StepCoefs(variant, index, eta, at, at_next)} })
        : et_hat \in {Sub(et, Mul(Mul(sqrt_1m_at, adaptive_eta2),
                                 Sub(Add(Mul(sqrt_at, y), Mul(sqrt_1m_at, et)), xt)))} })
        : sqrt_at \in {Sqrt(at)}, sqrt_1m_at \in {Sqrt(Unit - at)} })

\* cumulative alpha of a step, by the function each variant calls
AlphaOf(variant, t) ==
    IF variant = "DA" THEN compute_alpha(t) ELSE compute_alpha2(t)

\* the loop body on batch elements 1 .. b, given the values shared by the batch
RECURSIVE ElementSteps(_, _)
ElementSteps(s, b) ==
    IF b = 0 THEN <<>>
    ELSE Append(ElementSteps(s, b - 1),
                ElementStep(s.variant, s.index, s.eta, s.adaptive_eta2,
                            AlphaOf(s.variant, s.t[b]), AlphaOf(s.variant, s.next_t[b]),
                            s.xt[b], s.y[b], s.et[b], s.g[b]))

\* the histories after the loop body
Record(run, s, e) ==
    LET n == Len(e)
    IN [run EXCEPT !.xs = Append(@, [b \in 1 .. n |-> e[b].xt_next]),
                   !.x0_preds = Append(@, [b \in 1 .. n |-> e[b].x0_t]),
                   !.fed = Append(@, s.xt),
                   !.ts = Append(@, s.t),
                   !.nexts = Append(@, s.next_t),
                   !.at = [b \in 1 .. n |-> e[b].at],
                   !.at_next = [b \in 1 .. n |-> e[b].at_next],
                   !.c1 = [b \in 1 .. n |-> e[b].c1],
                   !.c2 = [b \in 1 .. n |-> e[b].c2],
                   !.scale = s.noise_scale,
                   !.g = s.g]

\* the body of the loop for one run: g is torch.randn_like(x)
Iterate(run, variant, seq, index, eta, eta2, kind, g) ==
    The({ The({ The({ Record(run, s, e) : e \in {ElementSteps(s, Len(run.x))} })
        : s \in {[variant |-> variant, index |-> index, eta |-> eta,
                  t |-> t, next_t |-> StepNextT(variant, seq, index),
                  xt |-> xt, y |-> run.y, et |-> et, g |-> g,
                  noise_scale |-> compute_adaptive_noise_scale(xt, et),
                  adaptive_eta2 |-> Mul(eta2, compute_adaptive_noise_scale(xt, et))]} })
        : t \in {StepT(variant, seq, index)}, xt \in {FedState(run.xs)},
          et \in {Model(kind, FedState(run.xs), StepT(variant, seq, index))} })

\* x0_preds = [], xs = [x]
NewRun(y, x) ==
    [y |-> y, x |-> x, xs |-> <<x>>, x0_preds |-> <<>>, fed |-> <<>>,
     ts |-> <<>>, nexts |-> <<>>, at |-> <<>>, at_next |-> <<>>,
     c1 |-> <<>>, c2 |-> <<>>, scale |-> 0, g |-> <<>>]

\* the step sequences tried: empty, one step, increasing, and one that is not
AllSeqs == {<<>>, <<0>>, <<0, 2>>, <<0, 1, 2>>, <<2, 0>>, <<0, 1, 2, 3>>}
Seqs == {q \in AllSeqs : Len(q) <= MaxSeqLen}
\* my_generalized_steps takes one sequence per sample, all of one length
SeqLists(variant) ==
    IF variant = "DA" THEN {<<q, q>> : q \in Seqs}
    ELSE {<<q, q>> : q \in Seqs} \cup {<< <<0, 2>>, <<1, 2>> >>}

Etas == {0, Unit, 2 * Unit}
Eta2s == {0, Unit}
\* run A starts from x = (1, 1) with y = (2, 0); run B has the same element 1
\* and its element 2 drawn from these
StartValues == {Unit, 3 * Unit}
ImageValues == {0, 2 * Unit}
\* torch.randn_like(x)
GaussVecs == {<<Unit, -Unit>>, <<-Unit, Unit \div 2>>}

SeqLen == Len(smp.seq[1])

\* one pass through the body of the for loop, in both runs
SamplerStep ==
    /\ smp.active
    /\ smp.pc = "loop"
    /\ smp.k < SeqLen
    /\ ~ModelRaises(smp.model, smp.k)
    /\ \E gA \in GaussVecs, gB \in GaussVecs :
         smp' = [smp EXCEPT
                   !.k = @ + 1,
                   !.A = Iterate(@, smp.variant, smp.seq, smp.k, smp.eta,
                                 smp.eta2, smp.model, gA),
                   !.B = Iterate(@, smp.variant, smp.seq, smp.k, smp.eta,
                                 smp.eta2, smp.model, gB)]
    /\ UNCHANGED <<gvars, fwd, xvars>>

\* return xs, x0_preds
SamplerReturn ==
    /\ smp.active
    /\ smp.pc = "loop"
    /\ smp.k = SeqLen
    /\ smp' = [smp EXCEPT !.pc = "returned"]
    /\ UNCHANGED <<gvars, fwd, xvars>>

InitSampler ==
    /\ InitGen /\ cls = "noise" /\ rng = 0
    /\ fwd = NoFwd /\ IdleX
    /\ \E variant \in {"DA", "my"} :
       \E seq \in SeqLists(variant), eta \in Etas, eta2 \in Eta2s, kind \in Models,
          xB \in StartValues, yB \in ImageValues :
         smp = [active |-> TRUE, pc |-> "loop", variant |-> variant, seq |-> seq,
                eta |-> eta, eta2 |-> eta2, model |-> kind, k |-> 0,
                A |-> NewRun(<<2 * Unit, 0>>, <<Unit, Unit>>),
                B |-> NewRun(<<2 * Unit, yB>>, <<Unit, xB>>)]
NextSampler == SamplerStep \/ SamplerReturn
SpecSampler == InitSampler /\ [][NextSampler]_vars

(***************************************************************************)
(* Claims about the noise history                                          *)
(***************************************************************************)
\* the calls whose noise a history of capacity HistoryCap holds after n calls
LastCalls(n) ==
    LET k == Min2(n, HistoryCap)
    IN [i \in 1 .. k |-> n - k + i]

\* C1: after any sequence of get_noise calls on one instance, whatever the
\* noise types and seeds, noise_history holds at most 100 entries.
C1_HistoryBounded == Len(noise_history) <= HistoryCap

\* more than 100 calls were made and the history is full
C1_Witness == ncalls > HistoryCap /\ Len(noise_history) = HistoryCap

\* C2: after N calls the history holds the noise returned by the last
\* min(N, 100) calls in call order, the newest last: every call appends one
\* entry at the end and a full buffer loses its front entry.
C2_HistoryIsLastCalls ==
    /\ noise_history = LastCalls(ncalls)
    /\ ncalls > 0 => noise_history[Len(noise_history)] = ret.id

\* three entries have been evicted: the front is the noise of call 4
C2_Witness ==
    /\ ncalls = HistoryCap + 3
    /\ noise_history[1] = 4
    /\ noise_history[HistoryCap] = ncalls

\* C3: get_noise with a noise_type outside the six known ones does not raise,
\* prints a warning, returns Gaussian noise of x's shape and appends it.
C3_UnknownTypeWarnsAndFallsBack ==
    (ncalls > 0 /\ call.type \notin KnownTypes) =>
        /\ warned
        /\ ret.dist = "gaussian"
        /\ ret.std = Unit
        /\ ret.shape = call.shape
        /\ noise_history[Len(noise_history)] = ret.id

(***************************************************************************)
(* Claims about forward_diffusion_sample                                   *)
(***************************************************************************)
\* the all-zeros image of the example, one batch element, step 0
ExampleInput ==
    /\ fwd.called
    /\ Len(fwd.x_0) = 1
    /\ \A p \in 1 .. Len(fwd.x_0[1]) : fwd.x_0[1][p] = 0 /\ fwd.noise[1][p] = Unit
    /\ fwd.t[1] = 0

\* C10: x_t has the shape of x_0 and, for every batch element i,
\* x_t[i] = sqrt_alphas_cumprod[t[i]] * x_0[i] +
\* sqrt_one_minus_alphas_cumprod[t[i]] * noise[i] with the element's own t[i]
\* and the returned noise; x_0 = 0, t = [0], noise = 1 give 0.14 everywhere.
C10_ForwardSampleFormula ==
    fwd.called =>
        /\ ShapeOf(fwd.x_t) = ShapeOf(fwd.x_0)
        /\ ShapeOf(fwd.noise) = ShapeOf(fwd.x_0)
        /\ \A i \in 1 .. Len(fwd.x_0) : \A p \in 1 .. Len(fwd.x_0[i]) :
             fwd.x_t[i][p] =
                 Quot(sqrt_alphas_cumprod[fwd.t[i] + 1] * fwd.x_0[i][p], Unit)
               + Quot(sqrt_one_minus_alphas_cumprod[fwd.t[i] + 1] * fwd.noise[i][p], Unit)
        /\ ExampleInput => \A p \in 1 .. Len(fwd.x_t[1]) : fwd.x_t[1][p] = 14

\* a batch of two elements at different steps, and the example has been run
C10_Witness ==
    /\ fwd.called
    /\ Len(fwd.x_0) = 2
    /\ fwd.t[1] # fwd.t[2]
    /\ fwd.x_0[2] # <<0, 0>>
    /\ fwd.x_t[1] # fwd.x_t[2]

\* the example of the spec is reachable and gives 0.14
C10_ExampleReached == ExampleInput /\ fwd.x_t = << <<14, 14>> >>

(***************************************************************************)
(* Claims about the reverse samplers                                       *)
(***************************************************************************)
Runs == {smp.A, smp.B}
BatchOf(run) == 1 .. Len(run.x)

\* C4: both variants walk seq back to front: the model is called once per
\* step, with seq[m-1], ..., seq[0] in that order; the next step paired with
\* seq[k] is seq[k-1], or -1 for k = 0; on return the x history holds m + 1
\* entries, the supplied x first, and the x0_pred history holds m.
C4_BackToFront ==
    smp.active =>
      \A run \in Runs :
        /\ Len(run.ts) = smp.k
        /\ Len(run.nexts) = smp.k
        /\ \A i \in 1 .. smp.k : \A b \in BatchOf(run) :
             /\ run.ts[i][b] = smp.seq[b][SeqLen + 1 - i]
             /\ run.nexts[i][b] =
                  IF SeqLen - i >= 1 THEN smp.seq[b][SeqLen - i] ELSE -1
        /\ smp.pc = "returned" =>
             /\ Len(run.ts) = SeqLen
             /\ Len(run.xs) = SeqLen + 1
             /\ run.xs[1] = run.x
             /\ Len(run.x0_preds) = SeqLen

\* the DA variant has returned from a three-step sequence
C4_Witness ==
    /\ smp.active /\ smp.pc = "returned" /\ smp.variant = "DA"
    /\ smp.A.ts = << <<2, 2>>, <<1, 1>>, <<0, 0>> >>
    /\ smp.A.nexts = << <<1, 1>>, <<0, 0>>, <<-1, -1>> >>
    /\ Len(smp.A.xs) = 4

IsPrefix(p, q) == Len(p) <= Len(q) /\ SubSeq(q, 1, Len(p)) = p

\* the state fed to the model at each iteration is the last one appended
FedIsPrevious ==
    smp.active =>
      \A run \in Runs :
        /\ Len(run.fed) = smp.k
        /\ \A i \in 1 .. smp.k : run.fed[i] = run.xs[i]

\* entries of the two histories are never changed or removed
HistoriesOnlyGrow ==
    smp.active =>
      /\ IsPrefix(smp.A.xs, smp.A.xs') /\ IsPrefix(smp.A.x0_preds, smp.A.x0_preds')
      /\ IsPrefix(smp.B.xs, smp.B.xs') /\ IsPrefix(smp.B.x0_preds, smp.B.x0_preds')

\* C5: the state fed to the model at iteration k + 1 is the state appended to
\* the x history at iteration k (the caller's x at the first), and no entry
\* of the x or x0_pred history is changed or removed once appended.
C5_SequentialAppendOnly == [](FedIsPrevious) /\ [][HistoriesOnlyGrow]_vars

\* the my variant has run three iterations from states that all differ
C5_Witness ==
    /\ smp.active /\ smp.variant = "my" /\ smp.k = 3
    /\ smp.A.fed[2] = smp.A.xs[2] /\ smp.A.fed[3] = smp.A.xs[3]
    /\ smp.A.xs[1] # smp.A.xs[2] /\ smp.A.xs[2] # smp.A.xs[3]

\* C6: the radicands of c1 and c2 are clamped at 0, so c1 and c2 are real
\* numbers and no NaN enters the next state, for every seq, schedule and eta.
C6_NoNaN ==
    smp.active =>
      \A run \in Runs : \A b \in BatchOf(run) :
        /\ smp.k > 0 => run.c1[b] # NaN /\ run.c2[b] # NaN
        /\ \A i \in 1 .. Len(run.xs) : run.xs[i][b] # NaN

\* the formula of c1 and of c2, written out
C1Value(eta, at, at_next) ==
    LET ratio == Div(at, at_next)
        radicand == Div(Mul(Sub(Unit, ratio), Sub(Unit, at_next)), Sub(Unit, at))
    IN Mul(eta, Sqrt(radicand))
C2Value(c1, at_next) == Sqrt(Sub(Sub(Unit, at_next), Mul(c1, c1)))

\* C7: the first iteration of the DA variant uses c1 = c2 = 0 whatever eta
\* is, so its next state is sqrt(alpha_next) * x0_pred; every other iteration
\* of either variant, the sentinel one included, uses
\* c1 = eta * sqrt((1 - at/at_next) * (1 - at_next) / (1 - at)) and
\* c2 = sqrt((1 - at_next) - c1^2).
C7_Coefficients ==
    (smp.active /\ smp.k > 0) =>
      \A run \in Runs : \A b \in BatchOf(run) :
        IF smp.variant = "DA" /\ smp.k = 1
        THEN /\ run.c1[b] = 0 /\ run.c2[b] = 0
             /\ run.xs[2][b] = Mul(Sqrt(run.at_next[b]), run.x0_preds[1][b])
        ELSE /\ run.c1[b] = C1Value(smp.eta, run.at[b], run.at_next[b])
             /\ run.c2[b] = C2Value(run.c1[b], run.at_next[b])

\* DA, eta = 1: zero coefficients in the first hop, where the formula gives
\* a c1 that is not zero
C7_Witness ==
    /\ smp.active /\ smp.variant = "DA" /\ smp.k = 1 /\ smp.eta = Unit
    /\ smp.A.c1 = <<0, 0>>
    /\ C1Value(smp.eta, smp.A.at[1], smp.A.at_next[1]) > 0

\* the formula at work: a later DA iteration and the first my iteration
C7_FormulaReached ==
    /\ smp.active /\ smp.eta = Unit /\ smp.A.c1 # <<>> /\ smp.A.c1[1] > 0
    /\ \/ smp.variant = "DA" /\ smp.k = 2
       \/ smp.variant = "my" /\ smp.k = 1

SameInputs == smp.A.x = smp.B.x /\ smp.A.y = smp.B.y

\* C8: with eta = 0 two runs of one variant on the same y, x, seq, schedule,
\* eta2 and model give the same x history and the same x0_pred history,
\* whatever the Gaussian draws are.
C8_DeterministicAtEtaZero ==
    (smp.active /\ smp.eta = 0 /\ SameInputs) =>
        /\ smp.A.xs = smp.B.xs
        /\ smp.A.x0_preds = smp.B.x0_preds

\* two finished runs at eta = 0 whose last draws differ
C8_Witness ==
    /\ smp.active /\ smp.pc = "returned" /\ smp.eta = 0 /\ SameInputs
    /\ SeqLen = 3 /\ smp.eta2 = Unit
    /\ smp.A.g # smp.B.g
    /\ smp.A.xs = smp.B.xs /\ smp.A.xs[4] # smp.A.xs[1]

\* the history of one batch element
ElementHistory(h, b) == [i \in 1 .. Len(h) |-> h[i][b]]

\* C9: with eta = 0 and a model that treats batch elements independently,
\* the histories of batch element 1 do not change when x or y of another
\* batch element changes.
C9_BatchElementsIndependent ==
    (smp.active /\ smp.eta = 0 /\ smp.model \in ElementwiseModels) =>
        /\ ElementHistory(smp.A.xs, 1) = ElementHistory(smp.B.xs, 1)
        /\ ElementHistory(smp.A.x0_preds, 1) = ElementHistory(smp.B.x0_preds, 1)

(***************************************************************************)
(* Round trip of forward_diffusion_sample                                  *)
(***************************************************************************)
\* the closed-form inverse with the same t and the returned noise:
\* (x_t - sqrt_one_minus_alphas_cumprod[t] * noise) / sqrt_alphas_cumprod[t]
RecoverX0(x_t, t, noise) ==
    [i \in 1 .. Len(x_t) |-> [p \in 1 .. Len(x_t[i]) |->
        Div(Sub(x_t[i][p], Mul(sqrt_one_minus_alphas_cumprod[t[i] + 1], noise[i][p])),
            sqrt_alphas_cumprod[t[i] + 1])]]

NonZeroCoefficient ==
    \A i \in 1 .. Len(fwd.t) : sqrt_alphas_cumprod[fwd.t[i] + 1] # 0

\* C11: the inverse applied to the outputs of forward_diffusion_sample,
\* with the same t and the returned noise, reproduces x_0 for every t whose
\* sqrt_alphas_cumprod[t] is not zero. The arithmetic is finite-precision, so
\* "equals" is up to its rounding: one rounding of the product
\* sqrt_alphas_cumprod[t] * x_0 and one of the quotient, hence
\* |recovered - x_0| * sqrt_alphas_cumprod[t] stays below one unit of the
\* product plus one unit of the quotient.
C11_RoundTripWithinTolerance ==
    (fwd.called /\ NonZeroCoefficient) =>
        \A i \in 1 .. Len(fwd.x_0) : \A p \in 1 .. Len(fwd.x_0[i]) :
            LET rec == RecoverX0(fwd.x_t, fwd.t, fwd.noise)[i][p]
                sac == sqrt_alphas_cumprod[fwd.t[i] + 1]
            IN /\ IsNum(rec)
               /\ Abs(rec - fwd.x_0[i][p]) * sac < Unit + sac

\* the recovered image is not x_0 digit for digit: the rounding is visible
RoundTripExact ==
    (fwd.called /\ NonZeroCoefficient) =>
        RecoverX0(fwd.x_t, fwd.t, fwd.noise) = fwd.x_0

\* a batch at two different steps whose recovered image differs from x_0 by
\* rounding only, with non-zero noise added
C11_Witness ==
    /\ fwd.called
    /\ Len(fwd.x_0) = 2
    /\ fwd.t[1] # fwd.t[2]
    /\ fwd.x_t # fwd.x_0
    /\ \E i \in 1 .. 2 : \E p \in 1 .. 2 : fwd.noise[i][p] # 0
    /\ RecoverX0(fwd.x_t, fwd.t, fwd.noise) # fwd.x_0

(***************************************************************************)
(* The heat-map engine (anomaly_map.py)                                    *)
(* A map is the sequence of the four pixels of a 2 x 2 image, row by row.  *)
(* Map values are integers in units of 1e-8, the epsilon of the            *)
(* normalisations, so One = 10^8 is 1.0.                                   *)
(***************************************************************************)
One == 10 ^ 8
Eps == 1                 \* the 1e-8 added to the denominators
\* float32 has a 24-bit significand: from 0.25 up, half a unit in the last
\* place exceeds 1e-8 and x + 1e-8 = x
AbsorbFrom == One \div 4

\* x + 1e-8 in float32, for x >= 0
AddEps(x) == IF x >= AbsorbFrom THEN x ELSE x + Eps

\* the first k decimal digits of r / d, for 0 <= r < d
RECURSIVE Digits(_, _, _)
Digits(r, d, k) ==
    IF k = 0 THEN 0
    ELSE ((r * 10) \div d) * 10 ^ (k - 1) + Digits((r * 10) % d, d, k - 1)

\* a / d rounded to the nearest 1e-8, for 0 <= a <= d and d > 0
Ratio(a, d) == IF a = d THEN One ELSE (Digits(a, d, 9) + 5) \div 10

RECURSIVE MinSeq(_)
MinSeq(q) == IF Len(q) = 1 THEN q[1] ELSE Min2(Head(q), MinSeq(Tail(q)))
RECURSIVE MaxSeq(_)
MaxSeq(q) == IF Len(q) = 1 THEN q[1] ELSE Max2(Head(q), MaxSeq(Tail(q)))

\* calculate_min_max_of_tensors: the minimum of the tensors' minima and the
\* maximum of their maxima
calculate_min_max_of_tensors(tensors) ==
    [min_value |-> MinSeq([i \in 1 .. Len(tensors) |-> MinSeq(tensors[i])]),
     max_value |-> MaxSeq([i \in 1 .. Len(tensors) |-> MaxSeq(tensors[i])])]

\* (tensor - tensor.min()) / (tensor.max() - tensor.min() + 1e-8)
MinMax(tensor, min_value, max_value) ==
    The({ [p \in 1 .. Len(tensor) |-> Ratio(tensor[p] - min_value, d)]
          : d \in {AddEps(max_value - min_value)} })

\* mutant: each tensor normalised by its own minimum and maximum
ScaleEachByItsOwn(tensors) ==
    [i \in 1 .. Len(tensors) |->
        MinMax(tensors[i], MinSeq(tensors[i]), MaxSeq(tensors[i]))]

\* scale_values_between_zero_and_one: every tensor of the list normalised by
\* the global minimum and maximum
scale_values_between_zero_and_one(tensors) ==
    The({ [i \in 1 .. Len(tensors) |-> MinMax(tensors[i], mm.min_value, mm.max_value)]
          : mm \in {calculate_min_max_of_tensors(tensors)} })

\* the maps explored: all zero, constant, a range of 1e-8, a range of 0.5
\* and a range of 0.04 above an offset
ZeroMap == <<0, 0, 0, 0>>
FlatMap == <<One \div 4, One \div 4, One \div 4, One \div 4>>
TinyMap == <<0, Eps, 0, Eps>>
WideMap == <<0, One \div 4, One \div 2, One \div 8>>
NarrowMap == <<One \div 4, (One \div 100) * 27, (One \div 100) * 29, (One \div 100) * 26>>
Maps == {ZeroMap, FlatMap, TinyMap, WideMap, NarrowMap}
MaxListLen == 2          \* tensors in a list passed to the normalisation

\* The functions of the engine are pure: a behaviour makes one call.
\* one call of scale_values_between_zero_and_one on a non-empty list
ScaleValues ==
    /\ hm = NoHm
    /\ \E n \in 1 .. MaxListLen : \E tensors \in [1 .. n -> Maps] :
         hm' = [op |-> "scale", tensors |-> tensors, raised |-> FALSE, error |-> "none",
                out |-> scale_values_between_zero_and_one(tensors)]
    /\ UNCHANGED <<gvars, fwd, smp, pro, los, trn>>

(***************************************************************************)
(* Claims about scale_values_between_zero_and_one                          *)
(***************************************************************************)
\* the pixels of a list of maps, as (tensor, pixel) index pairs
Pixels(tensors) == {ip \in (1 .. Len(tensors)) \X (1 .. 4) : TRUE}
ValueAt(tensors, ip) == tensors[ip[1]][ip[2]]

ScaledInRange ==
    \A ip \in Pixels(hm.out) : ValueAt(hm.out, ip) >= 0 /\ ValueAt(hm.out, ip) <= One
ScaledMinToZero ==
    \A ip \in Pixels(hm.out) :
        ValueAt(hm.tensors, ip) = calculate_min_max_of_tensors(hm.tensors).min_value
            => ValueAt(hm.out, ip) = 0
ScaledMaxToOne ==
    LET mm == calculate_min_max_of_tensors(hm.tensors)
    IN mm.max_value > mm.min_value =>
         \A ip \in Pixels(hm.out) :
             ValueAt(hm.tensors, ip) = mm.max_value => ValueAt(hm.out, ip) = One
ScaledOrderPreserved ==
    \A ip \in Pixels(hm.out), jq \in Pixels(hm.out) :
        ValueAt(hm.tensors, ip) <= ValueAt(hm.tensors, jq)
            => ValueAt(hm.out, ip) <= ValueAt(hm.out, jq)
ScaledConstantToZeros ==
    LET mm == calculate_min_max_of_tensors(hm.tensors)
    IN mm.max_value = mm.min_value =>
         ~hm.raised /\ \A ip \in Pixels(hm.out) : ValueAt(hm.out, ip) = 0

\* C12: for a non-empty list of tensors every value returned by
\* scale_values_between_zero_and_one lies in [0, 1], the global minimum maps
\* to 0, the global maximum maps to 1, the order of the values is kept, and
\* a list whose values are all equal gives all zeros without failing.
C12_ScaleValues ==
    hm.op = "scale" =>
        /\ ~hm.raised
        /\ ScaledInRange
        /\ ScaledMinToZero
        /\ ScaledMaxToOne
        /\ ScaledOrderPreserved
        /\ ScaledConstantToZeros

\* what does hold of C12: everything but the image of the maximum
C12_AllButMaximum ==
    hm.op = "scale" =>
        /\ ~hm.raised
        /\ ScaledInRange
        /\ ScaledMinToZero
        /\ ScaledOrderPreserved
        /\ ScaledConstantToZeros

\* the failing input: values 0 and 1e-8, whose maximum is mapped to 0.5
C12_TinyRangeHalf ==
    /\ hm.op = "scale"
    /\ hm.tensors = <<TinyMap>>
    /\ hm.out = << <<0, One \div 2, 0, One \div 2>> >>

(***************************************************************************)
(* fuse_heat_maps                                                          *)
(***************************************************************************)
\* weights in tenths; NoWeights is the weights=None default of the signature
NoWeights == [recon |-> 3, feature |-> 4, latent |-> 3]
WeightSets ==
    {NoWeights,
     [recon |-> 10, feature |-> 0, latent |-> 0],
     [recon |-> 0, feature |-> 5, latent |-> 5],
     [recon |-> 10, feature |-> -10, latent |-> 0]}

\* the latent maps passed in the list
LatentMaps == {ZeroMap, TinyMap, WideMap}
LatentLists == UNION {[1 .. n -> LatentMaps] : n \in 0 .. MaxListLen}

\* sum(latent_maps): Python's sum starts from the int 0, so an empty list
\* gives the int 0, which is no tensor
RECURSIVE SumMaps(_)
SumMaps(maps) ==
    IF Len(maps) = 1 THEN maps[1]
    ELSE [p \in 1 .. 4 |-> maps[1][p] + SumMaps(Tail(maps))[p]]

\* apply_deep_supervision on a 2 x 2 map: the scales 0.75 and 0.5 resize to
\* int(2 * scale) = 1 pixel, which with align_corners=True is pixel [0, 0];
\* the residual doubles it; resizing back to 2 x 2 repeats it; the three
\* branches are averaged
apply_deep_supervision(feature_map) ==
    [p \in 1 .. 4 |-> Quot(feature_map[p] + 2 * feature_map[1] + 2 * feature_map[1], 3)]

\* exp(k / 10) in thousandths for k = 0 .. 10
ExpTable == <<1000, 1105, 1221, 1350, 1492, 1649, 1822, 2014, 2226, 2460, 2718>>
Thousand == 10 ^ 3

\* w * v for a weight in thousandths
MulThousandths(w, v) == (v \div Thousand) * w + ((v % Thousand) * w) \div Thousand

\* mutant: the exponentials of the scores, not divided by their sum
ExponentialWeights(maps) ==
    [i \in 1 .. Len(maps) |->
        ExpTable[Quot(SumSeq([p \in 1 .. 4 |-> Abs(maps[i][p])]), 4)
                     \div (One \div 10) + 1]]

\* AdaptiveWeightCalculator.calculate_weights with temperature 1: softmax of
\* the maps' mean absolute values (scores taken to one decimal), in thousandths
calculate_weights(maps) ==
    The({ [i \in 1 .. Len(maps) |-> Quot(Thousand * e[i], SumSeq(e))]
          : e \in {[i \in 1 .. Len(maps) |->
                     ExpTable[Quot(SumSeq([p \in 1 .. 4 |-> Abs(maps[i][p])]), 4)
                                  \div (One \div 10) + 1]]} })

\* sum(w * m for w, m in zip(adaptive_weights, normalized_maps))
AdaptiveFusion(normalized_maps) ==
    The({ [p \in 1 .. 4 |-> MulThousandths(w[1], normalized_maps[1][p])
                          + MulThousandths(w[2], normalized_maps[2][p])
                          + MulThousandths(w[3], normalized_maps[3][p])]
          : w \in {calculate_weights(normalized_maps)} })

\* weights['recon'] * normalized_maps[0] + weights['feature'] * ... + ...
FixedFusion(weights, normalized_maps) ==
    [p \in 1 .. 4 |-> Quot(weights.recon * normalized_maps[1][p], 10)
                    + Quot(weights.feature * normalized_maps[2][p], 10)
                    + Quot(weights.latent * normalized_maps[3][p], 10)]

\* mutant: the fused map returned without the closing normalisation
NoFinalNormalisation(fused_map) == fused_map

\* the return statement: the fused map normalised by its own minimum and maximum
FinalNormalisation(fused_map) ==
    MinMax(fused_map, MinSeq(fused_map), MaxSeq(fused_map))

\* fused_map before the return statement, for a non-empty latent list
FusedMap(recon_map, feature_map, latent_maps, weights, adaptive_fusion, deep_supervision) ==
    The({ IF adaptive_fusion THEN AdaptiveFusion(normalized_maps)
          ELSE FixedFusion(weights, normalized_maps)
          : normalized_maps \in {scale_values_between_zero_and_one(
                IF deep_supervision
                THEN <<apply_deep_supervision(recon_map),
                       apply_deep_supervision(feature_map),
                       apply_deep_supervision(SumMaps(latent_maps))>>
                ELSE <<recon_map, feature_map, SumMaps(latent_maps)>>)} })

\* fuse_heat_maps for a non-empty latent list
fuse_heat_maps(recon_map, feature_map, latent_maps, weights, adaptive_fusion, deep_supervision) ==
    FinalNormalisation(FusedMap(recon_map, feature_map, latent_maps, weights,
                                adaptive_fusion, deep_supervision))

\* one fuse_heat_maps call; with an empty latent list the third map is the
\* int 0 and the first tensor method called on it raises AttributeError
FuseHeatMaps ==
    /\ hm = NoHm
    /\ \E recon_map \in Maps, feature_map \in Maps, latent_maps \in LatentLists,
          weights \in WeightSets, adaptive_fusion \in BOOLEAN,
          deep_supervision \in BOOLEAN :
         hm' = [op |-> "fuse", recon_map |-> recon_map, feature_map |-> feature_map,
                latent_maps |-> latent_maps, weights |-> weights,
                adaptive_fusion |-> adaptive_fusion,
                deep_supervision |-> deep_supervision,
                raised |-> latent_maps = <<>>,
                error |-> IF latent_maps = <<>> THEN "AttributeError" ELSE "none",
                out |-> IF latent_maps = <<>> THEN <<>>
                        ELSE fuse_heat_maps(recon_map, feature_map, latent_maps,
                                            weights, adaptive_fusion, deep_supervision)]
    /\ UNCHANGED <<gvars, fwd, smp, pro, los, trn>>

(***************************************************************************)
(* Claims about fuse_heat_maps                                             *)
(***************************************************************************)
ReconOnly == [recon |-> 10, feature |-> 0, latent |-> 0]
Fused == hm.op = "fuse" /\ ~hm.raised
ReconOnlyCall ==
    Fused /\ hm.weights = ReconOnly /\ ~hm.adaptive_fusion /\ ~hm.deep_supervision

\* C13: with the fixed weights recon 1, feature 0, latent 0 and both
\* options off, fuse_heat_maps returns the reconstruction map normalised by
\* its own minimum and maximum, and the same output for every feature map
\* and every latent list.
C13_ReconOnlyFusion ==
    ReconOnlyCall =>
        /\ hm.out = MinMax(hm.recon_map, MinSeq(hm.recon_map), MaxSeq(hm.recon_map))
        /\ \A feature_map \in Maps, latent_maps \in LatentLists \ {<<>>} :
             fuse_heat_maps(hm.recon_map, feature_map, latent_maps, ReconOnly,
                            FALSE, FALSE) = hm.out

\* the failing input: a reconstruction map of range 1e-8 fused with a
\* feature map of range 0.5 has its maximum at 0.67, with an all-zero
\* feature map at 1.0, and normalised on its own at 0.5
C13_OutputFollowsFeatureMap ==
    /\ ReconOnlyCall
    /\ hm.recon_map = TinyMap /\ hm.feature_map = WideMap /\ hm.latent_maps = <<ZeroMap>>
    /\ MaxSeq(hm.out) = 66666667
    /\ MaxSeq(fuse_heat_maps(TinyMap, ZeroMap, <<ZeroMap>>, ReconOnly, FALSE, FALSE)) = One
    /\ MaxSeq(MinMax(TinyMap, 0, Eps)) = One \div 2

\* what does hold of C13: a reconstruction map whose range is 0.25 or more
\* comes back normalised on its own, to within rounding in the last digits
CloseMaps(a, b) == \A p \in 1 .. 4 : Abs(a[p] - b[p]) <= 10
C13_WideReconMapsOnly ==
    (ReconOnlyCall /\ MaxSeq(hm.recon_map) - MinSeq(hm.recon_map) >= AbsorbFrom) =>
        CloseMaps(hm.out, MinMax(hm.recon_map, MinSeq(hm.recon_map), MaxSeq(hm.recon_map)))

\* C14: whatever the inputs, the weights and the two options, every value
\* of the returned map lies in [0, 1], and a constant fused map gives all
\* zeros without failing.
C14_FusedInUnitRange ==
    Fused =>
        /\ \A p \in 1 .. 4 : hm.out[p] >= 0 /\ hm.out[p] <= One
        /\ LET fused_map == FusedMap(hm.recon_map, hm.feature_map, hm.latent_maps,
                                     hm.weights, hm.adaptive_fusion, hm.deep_supervision)
           IN MinSeq(fused_map) = MaxSeq(fused_map) => hm.out = ZeroMap

\* both options on, a fused map that is not constant, and the ends of the
\* range are taken
C14_Witness ==
    /\ Fused /\ hm.adaptive_fusion /\ hm.deep_supervision
    /\ MinSeq(hm.out) = 0 /\ MaxSeq(hm.out) = One

\* a constant fused map other than zero is reached and returns zeros
C14_ConstantReached ==
    /\ Fused
    /\ LET fused_map == FusedMap(hm.recon_map, hm.feature_map, hm.latent_maps,
                                 hm.weights, hm.adaptive_fusion, hm.deep_supervision)
       IN MinSeq(fused_map) = MaxSeq(fused_map) /\ fused_map # ZeroMap
    /\ hm.out = ZeroMap

(***************************************************************************)
(* recon_heat_map, feature_heat_map, heatmap_latent                        *)
(* An image is a sequence of channels, each channel the values at the      *)
(* centres of four constant blocks wider than the largest blur kernel, so  *)
(* the Gaussian blur (weights summing to 1) and the resizes return the     *)
(* block's own value there.                                                *)
(***************************************************************************)
Channels == 3
Grey(m) == [c \in 1 .. Channels |-> m]
BlackImage == Grey(<<-One, -One, -One, -One>>)
WhiteImage == Grey(<<One, One, One, One>>)
BlocksImage == Grey(<<-One, 0, One, 0>>)
TintedImage == << <<One, One, One, One>>, <<0, 0, 0, 0>>, <<-One, 0, One, 0>> >>
Images == {BlackImage, WhiteImage, BlocksImage, TintedImage}

\* transforms.Normalize: mean and std per channel, in thousandths
NormalizeMean == <<485, 456, 406>>
NormalizeStd == <<229, 224, 225>>

\* v * 1000 / s without leaving 32 bits
TimesThousandOver(v, s) ==
    IF v >= 0 THEN (v \div s) * Thousand + ((v % s) * Thousand) \div s
    ELSE -(((-v) \div s) * Thousand + (((-v) % s) * Thousand) \div s)

\* Lambda(t -> (t + 1) / 2) followed by Normalize
Transform(image) ==
    [c \in 1 .. Channels |-> [p \in 1 .. 4 |->
        TimesThousandOver((image[c][p] + One) \div 2 - NormalizeMean[c] * (One \div Thousand),
                          NormalizeStd[c])]]

\* torch.mean(torch.abs(image1 - image2), dim=1, keepdim=True)
MeanAbsDifference(image1, image2) ==
    [p \in 1 .. 4 |->
        Quot(SumSeq([c \in 1 .. Channels |-> Abs(image1[c][p] - image2[c][p])]), Channels)]

\* color_distance: on latents the raw images, resized; otherwise the
\* transformed images
color_distance(image1, image2, latent) ==
    IF latent THEN MeanAbsDifference(image1, image2)
    ELSE MeanAbsDifference(Transform(image1), Transform(image2))

\* the difference of two images is the same at every position of a channel
ConstantDifference(image1, image2) ==
    \A c \in 1 .. Channels : \A p \in 1 .. 4 :
        image1[c][p] - image2[c][p] = image1[c][1] - image2[c][1]

\* frequency_domain_analysis when the difference is constant per channel:
\* fft2 is linear, the spectrum of a constant d has the zero frequency only,
\* and the inverse transform of its modulus is |d| everywhere
frequency_domain_analysis(image1, image2) ==
    [c \in 1 .. Channels |-> [p \in 1 .. 4 |-> Abs(image1[c][p] - image2[c][p])]]

\* w * v for a weight w in tenths
Tenths(w, v) == IF v >= 0 THEN (v \div 10) * w ELSE -(((-v) \div 10) * w)

\* the blur of a map at the block centres, kernel weights summing to 1
gaussian_blur2d(m) == m

\* torch.sum(ano_map, dim=1, keepdim=True)
SumChannels(maps) ==
    [p \in 1 .. 4 |-> SumSeq([c \in 1 .. Len(maps) |-> maps[c][p]])]

\* the return statement of recon_heat_map and feature_heat_map
SummedReturn(ano_map) == SumChannels(ano_map)

\* recon_heat_map; with frequency_enhance the one-channel distance map is
\* broadcast against the per-channel frequency map
recon_heat_map(output, target, latent, detail_enhance, frequency_enhance) ==
    The({ The({ SummedReturn(
                  IF detail_enhance
                  THEN [c \in 1 .. Len(mixed) |-> [p \in 1 .. 4 |->
                          Tenths(3, gaussian_blur2d(mixed[c])[p])
                        + Tenths(4, gaussian_blur2d(mixed[c])[p])
                        + Tenths(3, gaussian_blur2d(mixed[c])[p])]]
                  ELSE [c \in 1 .. Len(mixed) |-> gaussian_blur2d(mixed[c])])
          : mixed \in {IF frequency_enhance
                       THEN [c \in 1 .. Channels |-> [p \in 1 .. 4 |->
                               Tenths(7, ano_map[p])
                             + Tenths(3, frequency_domain_analysis(output, target)[c][p])]]
                       ELSE <<ano_map>>} })
          : ano_map \in {color_distance(output, target, latent)} })

\* one recon_heat_map call
ReconHeatMap ==
    /\ hm = NoHm
    /\ \E output \in Images, target \in Images, latent \in BOOLEAN,
          detail_enhance \in BOOLEAN, frequency_enhance \in BOOLEAN :
         /\ frequency_enhance => ConstantDifference(output, target)
         /\ hm' = [op |-> "recon", output |-> output, target |-> target,
                   latent |-> latent, detail_enhance |-> detail_enhance,
                   frequency_enhance |-> frequency_enhance,
                   raised |-> FALSE, error |-> "none",
                   out |-> recon_heat_map(output, target, latent, detail_enhance,
                                          frequency_enhance)]
    /\ UNCHANGED <<gvars, fwd, smp, pro, los, trn>>

\* the feature extractors explored: "pixels" returns the image itself at two
\* layers, "constant" the same features for every image, "raise" raises
FeatureExtractors == {"pixels", "constant", "raise"}
FE(kind, image) ==
    IF kind = "pixels" THEN <<image, image>> ELSE <<WhiteImage, WhiteImage>>

\* config.model.anomap_excluded_layers (layers are numbered from 0)
ExcludedLayerSets == {{}, {0}}

\* F.cosine_similarity along the channels at one position, in thousandths,
\* from features taken to two decimals; a zero norm is replaced by the
\* function's eps, which leaves 0
Hundredth == One \div (10 * 10)
CosineOf(a, b) ==
    The({ IF na * nb = 0 THEN 0
          ELSE Max2(-Thousand, Min2(Thousand,
                 Quot(SumSeq([c \in 1 .. Channels |-> a[c] * b[c]]) * Thousand, na * nb)))
          : na \in {ISqrt(SumSeq([c \in 1 .. Channels |-> a[c] * a[c]]))},
            nb \in {ISqrt(SumSeq([c \in 1 .. Channels |-> b[c] * b[c]]))} })
cosine_similarity(input_feat, output_feat) ==
    [p \in 1 .. 4 |->
        CosineOf([c \in 1 .. Channels |-> Quot(input_feat[c][p], Hundredth)],
                 [c \in 1 .. Channels |-> Quot(output_feat[c][p], Hundredth)])]

\* the layers that enter the sum
UsedLayers(features, excluded) == {i \in 1 .. Len(features) : (i - 1) \notin excluded}

\* with use_attention the product of similarity [B, h, w] and the channel
\* attention [B, C, 1] needs h = C; the images explored have h # C
AttentionShapesMismatch == TRUE

\* what feature_distance_new raises, "none" when it returns
FeatureDistanceError(fe, excluded, use_attention) ==
    IF fe = "raise" THEN "FeatureExtractorError"
    ELSE IF use_attention /\ UsedLayers(FE(fe, WhiteImage), excluded) # {}
              /\ AttentionShapesMismatch
         THEN "RuntimeError"
         ELSE "none"

RECURSIVE AddLayers(_, _, _, _)
AddLayers(inputs_features, output_features, excluded, i) ==
    IF i > Len(inputs_features) THEN ZeroMap
    ELSE The({ IF (i - 1) \in excluded THEN rest
               ELSE [p \in 1 .. 4 |->
                       rest[p] + One
                       - cosine_similarity(inputs_features[i], output_features[i])[p]
                         * (One \div Thousand)]
               : rest \in {AddLayers(inputs_features, output_features, excluded, i + 1)} })

\* feature_distance_new without attention: over the layers not excluded, the
\* sum of 1 - cosine similarity of the features of target and output
feature_distance_new(output, target, fe, excluded) ==
    AddLayers(FE(fe, Transform(target)), FE(fe, Transform(output)), excluded, 1)

\* feature_heat_map; the three scales of use_multi_scale resize the images
\* and the maps, which keeps the values at the block centres
feature_heat_map(output, target, fe, excluded, use_multi_scale) ==
    The({ SummedReturn(<<gaussian_blur2d(
              IF use_multi_scale THEN [p \in 1 .. 4 |-> Quot(f_d[p] + f_d[p] + f_d[p], 3)]
              ELSE f_d)>>)
          : f_d \in {feature_distance_new(output, target, fe, excluded)} })

\* one feature_heat_map call; an exception of feature_distance_new is not
\* handled and ends the call
FeatureHeatMap ==
    /\ hm = NoHm
    /\ \E output \in Images, target \in Images, fe \in FeatureExtractors,
          excluded \in ExcludedLayerSets, use_attention \in BOOLEAN,
          use_multi_scale \in BOOLEAN :
         LET error == FeatureDistanceError(fe, excluded, use_attention)
         IN hm' = [op |-> "feature", output |-> output, target |-> target, fe |-> fe,
                   excluded |-> excluded, use_attention |-> use_attention,
                   use_multi_scale |-> use_multi_scale,
                   raised |-> error # "none", error |-> error,
                   out |-> IF error # "none" THEN <<>>
                           ELSE feature_heat_map(output, target, fe, excluded,
                                                 use_multi_scale)]
    /\ UNCHANGED <<gvars, fwd, smp, pro, los, trn>>

\* a * b for two values in units of 1e-8, without leaving 32 bits
TenThousand == 10 ^ 4
MulOneAbs(a, b) ==
    (a \div TenThousand) * (b \div TenThousand)
    + ((a \div TenThousand) * (b % TenThousand)
       + (a % TenThousand) * (b \div TenThousand)) \div TenThousand
MulOne(a, b) ==
    IF (a >= 0) = (b >= 0) THEN MulOneAbs(Abs(a), Abs(b)) ELSE -MulOneAbs(Abs(a), Abs(b))

\* the latent tensors explored have one channel, for which the softmax over
\* the channels is 1: channel_attention multiplies by 1
L1Maps == {ZeroMap, WideMap, <<0, One, 2 * One, One>>}
CosMaps == {ZeroMap, <<One, 2 * One, 0, One>>}
AnomapWeightings == {0, 5, 10}     \* config.model.anomap_weighting in tenths

\* the weight of one pair of maps
LatentWeight(cos_map, anomap_weighting, dynamic_weight) ==
    IF dynamic_weight
    THEN Tenths(anomap_weighting, One + Quot(SumSeq(cos_map), 4)) \div 2
    ELSE Tenths(anomap_weighting, One)

\* one pass of the loop of heatmap_latent
LatentMap(l1_map, cos_map, anomap_weighting, dynamic_weight) ==
    The({ SummedReturn(<<gaussian_blur2d(
              [p \in 1 .. 4 |-> MulOne(weight, l1_map[p])
                              + MulOne(One - weight, cos_map[p])])>>)
          : weight \in {LatentWeight(cos_map, anomap_weighting, dynamic_weight)} })

\* heatmap_latent: one map per pair of zip(l1_latent, cos_list)
heatmap_latent(l1_latent, cos_list, anomap_weighting, dynamic_weight) ==
    [i \in 1 .. Min2(Len(l1_latent), Len(cos_list)) |->
        LatentMap(l1_latent[i], cos_list[i], anomap_weighting, dynamic_weight)]

\* one heatmap_latent call
HeatmapLatent ==
    /\ hm = NoHm
    /\ \E n \in 0 .. MaxListLen :
       \E l1_latent \in [1 .. n -> L1Maps], cos_list \in [1 .. n -> CosMaps],
          anomap_weighting \in AnomapWeightings, dynamic_weight \in BOOLEAN,
          channel_attention \in BOOLEAN :
         hm' = [op |-> "latent", l1_latent |-> l1_latent, cos_list |-> cos_list,
                anomap_weighting |-> anomap_weighting,
                dynamic_weight |-> dynamic_weight,
                channel_attention |-> channel_attention,
                raised |-> FALSE, error |-> "none",
                out |-> heatmap_latent(l1_latent, cos_list, anomap_weighting,
                                       dynamic_weight)]
    /\ UNCHANGED <<gvars, fwd, smp, pro, los, trn>>

\* the heat-map engine
InitMaps == InitGen /\ cls = "noise" /\ rng = 0 /\ fwd = NoFwd /\ smp = NoSmp /\ IdleX
NextMaps == ScaleValues \/ FuseHeatMaps \/ ReconHeatMap \/ FeatureHeatMap \/ HeatmapLatent
SpecMaps == InitMaps /\ [][NextMaps]_vars

(***************************************************************************)
(* Claims about the three heat maps                                        *)
(***************************************************************************)
InUnitRange(m) == \A p \in 1 .. 4 : m[p] >= 0 /\ m[p] <= One

\* C15: the maps returned by recon_heat_map, feature_heat_map,
\* heatmap_latent and fuse_heat_maps have every value in [0, 1].
C15_EveryMapInUnitRange ==
    (hm.op # "none" /\ ~hm.raised) =>
        /\ hm.op \in {"recon", "feature", "fuse"} => InUnitRange(hm.out)
        /\ hm.op = "latent" => \A i \in 1 .. Len(hm.out) : InUnitRange(hm.out[i])

\* the three functions one at a time
C15_ReconInUnitRange == (hm.op = "recon" /\ ~hm.raised) => InUnitRange(hm.out)
C15_FeatureInUnitRange == (hm.op = "feature" /\ ~hm.raised) => InUnitRange(hm.out)
C15_LatentInUnitRange ==
    (hm.op = "latent" /\ ~hm.raised) => \A i \in 1 .. Len(hm.out) : InUnitRange(hm.out[i])

\* the failing input: a white output against a black target on latents
C15_ReconReturnsTwo ==
    /\ hm.op = "recon" /\ hm.latent /\ ~hm.detail_enhance /\ ~hm.frequency_enhance
    /\ hm.output = WhiteImage /\ hm.target = BlackImage
    /\ hm.out = <<2 * One, 2 * One, 2 * One, 2 * One>>

(***************************************************************************)
(* compute_pro (metrics.py)                                                *)
(* One mask and one anomaly map of 3 x 3 pixels, row by row; values are    *)
(* fixed-point with Unit = 1.00.                                           *)
(***************************************************************************)
Side == 3
ProPixels == 1 .. Side * Side
RowOf(p) == (p - 1) \div Side
ColOf(p) == (p - 1) % Side

\* measure.label on a 2-D mask joins pixels that touch by a side or a corner
Touching(p, q) ==
    p # q /\ Abs(RowOf(p) - RowOf(q)) <= 1 /\ Abs(ColOf(p) - ColOf(q)) <= 1

RECURSIVE Grow(_, _)
Grow(S, ones) ==
    The({ IF next = S THEN S ELSE Grow(next, ones)
          : next \in {S \cup {q \in ones : \E p \in S : Touching(p, q)}} })

\* measure.regionprops(measure.label(mask)): the connected regions of ones
Regions(mask) ==
    The({ {Grow({p}, ones) : p \in ones} : ones \in {{p \in ProPixels : mask[p] = 1}} })

RECURSIVE SumOver(_, _)
SumOver(S, f) ==
    IF S = {} THEN 0
    ELSE The({ f[x] + SumOver(S \ {x}, f) : x \in {CHOOSE y \in S : TRUE} })

\* (amaps - amaps.min()) / (amaps.max() - amaps.min()): no epsilon here
NormalisedAmap(amap) ==
    The({ [p \in ProPixels |-> Div(amap[p] - lo, hi - lo)]
          : lo \in {MinSeq(amap)}, hi \in {MaxSeq(amap)} })

\* np.arange(min_th, max_th, delta): ceil((max_th - min_th) / delta) values
Thresholds(min_th, max_th, delta) ==
    [k \in 1 .. ((max_th - min_th) + delta - 1) \div delta |-> min_th + (k - 1) * delta]

\* one row of the data frame: the mean over the regions of the covered
\* fraction, and the false-positive rate, at one threshold
ProRow(amap, mask, regions, th) ==
    The({ [pro |-> Quot(SumOver(regions,
                         [r \in regions |->
                            Div(Cardinality(r \cap binary) * Unit, Cardinality(r) * Unit)]),
                        Cardinality(regions)),
           fpr |-> Div(Cardinality({p \in binary : mask[p] = 0}) * Unit,
                       Cardinality({p \in ProPixels : mask[p] = 0}) * Unit),
           threshold |-> th]
          : binary \in {{p \in ProPixels : amap[p] > th}} })

\* df[df["fpr"] < 0.3]: a NaN compares false
RECURSIVE KeepLowFpr(_)
KeepLowFpr(rows) ==
    IF rows = <<>> THEN <<>>
    ELSE IF IsNum(Head(rows).fpr) /\ Head(rows).fpr < Quot(3 * Unit, 10)
         THEN <<Head(rows)>> \o KeepLowFpr(Tail(rows))
         ELSE KeepLowFpr(Tail(rows))

\* sklearn.metrics.auc on two or more points with no NaN in x: the
\* trapezoidal rule, negated when x decreases
Trapezoid(x, y) ==
    The({ IF \E i \in 1 .. Len(x) - 1 : x[i + 1] < x[i] THEN -area ELSE area
          : area \in {SumSeq([i \in 1 .. Len(x) - 1 |->
                               Quot((x[i + 1] - x[i]) * (y[i] + y[i + 1]), 2 * Unit)])} })

\* the tail of compute_pro: the filter, fpr / fpr.max() and auc. The empty
\* data frame the rows are appended to has object columns, and whether the
\* result keeps them depends on the pandas version: 0 / 0 is NaN on a float
\* column and raises ZeroDivisionError on an object column.
ProScore(rows, frame) ==
    The({ IF kept # <<>> /\ MaxSeq([i \in 1 .. Len(kept) |-> kept[i].fpr]) = 0
             /\ frame = "object"
          THEN [error |-> "ZeroDivisionError", score |-> NaN]
          ELSE IF Len(kept) < 2 THEN [error |-> "ValueError", score |-> NaN]
          ELSE The({ [error |-> "none",
                      score |-> IF HasNaN(x) THEN NaN
                                ELSE Trapezoid(x, [i \in 1 .. Len(kept) |-> kept[i].pro])]
                     : x \in {[i \in 1 .. Len(kept) |->
                                 Div(kept[i].fpr,
                                     MaxSeq([j \in 1 .. Len(kept) |-> kept[j].fpr]))]} })
          : kept \in {KeepLowFpr(rows)} })

\* compute_pro: a constant map normalises to NaN and np.arange raises; a
\* mask without a region leaves pros empty and statistics.mean raises
compute_pro(mask, amap, num_th, frame) ==
    IF MinSeq(amap) = MaxSeq(amap) THEN [error |-> "ValueError", score |-> NaN]
    ELSE IF \A p \in ProPixels : mask[p] = 0
         THEN [error |-> "StatisticsError", score |-> NaN]
    ELSE The({ ProScore([k \in 1 .. Len(ths) |-> ProRow(amaps, mask, regions, ths[k])],
                        frame)
               : amaps \in {NormalisedAmap(amap)}, regions \in {Regions(mask)},
                 ths \in {Thresholds(0, Unit, Quot(Unit, num_th))} })

\* the inputs explored
SquareMask == <<1, 1, 0,
                1, 1, 0,
                0, 0, 0>>
Masks ==
    {SquareMask,
     <<0, 0, 0, 0, 1, 0, 0, 0, 0>>,
     <<1, 0, 0, 0, 0, 0, 0, 0, 1>>,
     <<1, 0, 1, 0, 0, 0, 1, 0, 1>>,
     <<0, 0, 0, 0, 0, 0, 0, 0, 0>>,
     <<1, 1, 1, 1, 1, 1, 1, 1, 1>>}
AmapLevels == {0, Unit}
GradedAmaps ==
    {<<Unit, Unit, Unit \div 2, Unit, Unit, 0, 0, 0, 0>>,
     <<2 * Unit, Unit, 0, Unit, Unit \div 2, 0, Unit \div 2, 0, 0>>}
Amaps == [ProPixels -> AmapLevels] \cup GradedAmaps
NumThs == {2, 4, 5}
Frames == {"float64", "object"}

\* one compute_pro call
ComputePro ==
    /\ pro = NoPro
    /\ \E mask \in Masks, amap \in Amaps, num_th \in NumThs, frame \in Frames :
         LET result == compute_pro(mask, amap, num_th, frame)
         IN pro' = [called |-> TRUE, mask |-> mask, amap |-> amap, num_th |-> num_th,
                    frame |-> frame, raised |-> result.error # "none",
                    error |-> result.error, score |-> result.score]
    /\ UNCHANGED <<gvars, fwd, smp, hm, los, trn>>

InitPro ==
    /\ InitGen /\ cls = "noise" /\ rng = 0 /\ fwd = NoFwd /\ smp = NoSmp
    /\ hm = NoHm /\ pro = NoPro /\ los = NoLos /\ trn = NoTrn
NextPro == ComputePro
SpecPro == InitPro /\ [][NextPro]_vars

(***************************************************************************)
(* Claims about compute_pro                                                *)
(***************************************************************************)
\* the anomaly map that is 1 exactly on the ones of the mask
CoversExactly(amap, mask) == \A p \in ProPixels : amap[p] = mask[p] * Unit
OneSquareRegion(mask) == mask = SquareMask

\* C16: on a single mask holding one square region and a map that is 1
\* exactly on that region and 0 elsewhere, compute_pro returns a score of
\* about 1.0.
C16_PerfectMapScoresOne ==
    (pro.called /\ OneSquareRegion(pro.mask) /\ CoversExactly(pro.amap, pro.mask)) =>
        /\ ~pro.raised
        /\ IsNum(pro.score)
        /\ Abs(pro.score - Unit) <= Unit \div 10

\* what the code returns on that input: NaN, or ZeroDivisionError
C16_PerfectMapGivesNaN ==
    (pro.called /\ OneSquareRegion(pro.mask) /\ CoversExactly(pro.amap, pro.mask)) =>
        \/ ~pro.raised /\ pro.score = NaN
        \/ pro.error = "ZeroDivisionError"

\* a score is computed on other inputs
C16_SomeScore == pro.called /\ ~pro.raised /\ IsNum(pro.score) /\ pro.score > 0

(***************************************************************************)
(* trainer (train.py) and build_optimizer (optimizer.py)                   *)
(* A file of the checkpoint directory is a record: what its name ends      *)
(* with after the last "_" (an epoch number or "best") and its extension.  *)
(***************************************************************************)
MaxEpochs == 2           \* config.model.epochs explored
MaxBatches == 2          \* batches the train loader yields per epoch
NoEpoch == -1

EpochFile(e) == [kind |-> "epoch", epoch |-> e, ext |-> ".pth"]
BestFile == [kind |-> "best", epoch |-> NoEpoch, ext |-> ".pth"]
NotesFile == [kind |-> "notes", epoch |-> NoEpoch, ext |-> ".txt"]
\* what the directory holds when trainer is called
Directories == {{}, {NotesFile}, {EpochFile(0)}, {BestFile}, {EpochFile(0), BestFile}}

OptimizerNames == {"Adam", "AdamW", "SGD"}
Backbones == {"VAE", "VQVAE"}

\* build_optimizer: the two names it knows bind `optimizer`; with any other
\* name the return statement reads an unbound local
build_optimizer(optimizer_name) ==
    IF optimizer_name \in {"Adam", "AdamW"} THEN [error |-> "none", optimizer |-> optimizer_name]
    ELSE [error |-> "UnboundLocalError", optimizer |-> "none"]

\* [f for f in os.listdir(model_save_dir) if f.endswith(".pth")]
CheckpointFiles(dir) == {f \in dir : f.ext = ".pth"}

\* the sort key int(x.split("_")[-1]): the last piece of the name still
\* carries the extension ("0.pth", "best.pth"), which int() rejects
SortKeyRaises(f) == f.ext # "" \/ f.kind # "epoch"

\* checkpoint_files[-1] after the sort: the file of the highest epoch
LatestCheckpoint(files) == CHOOSE f \in files : \A g \in files : g.epoch <= f.epoch

Raise(t, error) == [t EXCEPT !.pc = "raised", !.error = error]

\* lines 18-39: the optimizer, the directory, the sorted list of checkpoints
\* and the resume from the latest one
TrainerOpen ==
    /\ trn.pc = "start"
    /\ LET built == build_optimizer(trn.optimizer_name)
           files == CheckpointFiles(trn.dir)
       IN trn' =
            IF built.error # "none" THEN Raise(trn, built.error)
            ELSE IF \E f \in files : SortKeyRaises(f)
                 THEN Raise([trn EXCEPT !.optimizer = built.optimizer], "ValueError: invalid literal for int()")
            ELSE IF files # {}
                 THEN [trn EXCEPT !.optimizer = built.optimizer, !.pc = "data",
                                  !.model_loaded = TRUE, !.optimizer_loaded = TRUE,
                                  !.start_epoch = LatestCheckpoint(files).epoch + 1]
            ELSE [trn EXCEPT !.optimizer = built.optimizer, !.pc = "data"]
    /\ UNCHANGED <<gvars, fwd, smp, hm, pro, los>>

\* lines 41-66: the data loader, then the latent backbone
TrainerSetup ==
    /\ trn.pc = "data"
    /\ trn' = IF trn.latent /\ trn.latent_backbone # "VAE"
              THEN Raise(trn, "ValueError: backbone needs to be VAE")
              ELSE [trn EXCEPT !.pc = "epoch", !.epoch = trn.start_epoch]
    /\ UNCHANGED <<gvars, fwd, smp, hm, pro, los>>

\* for epoch in range(start_epoch, config.model.epochs)
TrainerEpoch ==
    /\ trn.pc = "epoch"
    /\ trn' = IF trn.epoch < trn.epochs THEN [trn EXCEPT !.pc = "batch", !.step = 0]
              ELSE [trn EXCEPT !.pc = "final"]
    /\ UNCHANGED <<gvars, fwd, smp, hm, pro, los>>

\* one batch: get_loss, backward, optimizer.step, and the save at step 0
TrainerBatch ==
    /\ trn.pc = "batch"
    /\ trn.step < trn.batches
    /\ trn' = [trn EXCEPT !.losses = @ + 1, !.optimizer_steps = @ + 1,
                          !.step = @ + 1,
                          !.written = IF trn.step = 0 /\ trn.save_model
                                      THEN @ \cup {EpochFile(trn.epoch)} ELSE @]
    /\ UNCHANGED <<gvars, fwd, smp, hm, pro, los>>

\* after the batches: avg_loss = epoch_loss / step_count, then the best model
TrainerEpochEnd ==
    /\ trn.pc = "batch"
    /\ trn.step = trn.batches
    /\ \E improved \in BOOLEAN :
         trn' = IF trn.step = 0 THEN Raise(trn, "ZeroDivisionError")
                ELSE [trn EXCEPT !.pc = "epoch", !.epoch = @ + 1,
                                 !.written = IF improved /\ trn.save_model
                                             THEN @ \cup {BestFile} ELSE @]
    /\ UNCHANGED <<gvars, fwd, smp, hm, pro, los>>

\* the last save and the return
TrainerReturn ==
    /\ trn.pc = "final"
    /\ trn' = [trn EXCEPT !.pc = "returned",
                          !.written = IF trn.save_model
                                      THEN @ \cup {EpochFile(trn.epochs - 1)} ELSE @]
    /\ UNCHANGED <<gvars, fwd, smp, hm, pro, los>>

InitTrainer ==
    /\ InitGen /\ cls = "noise" /\ rng = 0 /\ fwd = NoFwd /\ smp = NoSmp
    /\ hm = NoHm /\ pro = NoPro /\ los = NoLos
    /\ \E optimizer_name \in OptimizerNames, latent \in BOOLEAN,
          latent_backbone \in Backbones, save_model \in BOOLEAN,
          epochs \in 1 .. MaxEpochs, batches \in 0 .. MaxBatches, dir \in Directories :
         trn = [pc |-> "start", optimizer_name |-> optimizer_name, latent |-> latent,
                latent_backbone |-> latent_backbone, save_model |-> save_model,
                epochs |-> epochs, batches |-> batches, dir |-> dir,
                optimizer |-> "none", model_loaded |-> FALSE,
                optimizer_loaded |-> FALSE, start_epoch |-> 0, epoch |-> 0,
                step |-> 0, losses |-> 0, optimizer_steps |-> 0, written |-> {},
                error |-> "none"]
NextTrainer ==
    \/ TrainerOpen \/ TrainerSetup \/ TrainerEpoch \/ TrainerBatch
    \/ TrainerEpochEnd \/ TrainerReturn
SpecTrainer == InitTrainer /\ [][NextTrainer]_vars

(***************************************************************************)
(* Claims about trainer                                                    *)
(***************************************************************************)
UnsupportedBackbone ==
    trn.latent /\ trn.latent_backbone # "VAE" /\ trn.optimizer_name \in {"Adam", "AdamW"}
NoComputeYet ==
    /\ ~trn.model_loaded /\ ~trn.optimizer_loaded
    /\ trn.losses = 0 /\ trn.optimizer_steps = 0 /\ trn.written = {}

\* C17: with config.model.latent set and a latent backbone other than
\* "VAE", trainer ends with the configuration error and nothing has been
\* computed by then: no checkpoint loaded into the model or the optimizer,
\* no loss, no optimizer step, no checkpoint written.
C17_BackboneErrorBeforeCompute ==
    UnsupportedBackbone =>
        /\ NoComputeYet
        /\ trn.pc \in {"start", "data", "raised"}
        /\ trn.pc = "raised" => trn.error = "ValueError: backbone needs to be VAE"

\* what does hold of C17: the call ends with an error and nothing computed
C17_SomeErrorBeforeCompute ==
    UnsupportedBackbone => NoComputeYet /\ trn.pc \in {"start", "data", "raised"}

\* with an empty directory the configuration error is the one raised
C17_ConfigurationErrorReached ==
    /\ UnsupportedBackbone /\ trn.dir = {}
    /\ trn.pc = "raised" /\ trn.error = "ValueError: backbone needs to be VAE"

\* a training run that computes and writes, for the other configurations
C17_TrainingReached ==
    trn.pc = "returned" /\ trn.losses > 1 /\ BestFile \in trn.written

(***************************************************************************)
(* get_loss (loss.py)                                                      *)
(* A tensor is a vector of batch elements of one pixel each; values are    *)
(* fixed-point with Unit = 1.00.                                           *)
(***************************************************************************)
\* at = (1 - b).cumprod(dim=0).index_select(0, t), for one element
RECURSIVE loss_alpha(_)
loss_alpha(t) ==
    IF t = 0 THEN Unit - betas[1] ELSE Mul(loss_alpha(t - 1), Unit - betas[t + 1])

\* torch.sigmoid at steps of 0.1, saturated at 6.0
SigmoidTable == <<50, 52, 55, 57, 60, 62, 65, 67, 69, 71, 73, 75, 77, 79,
                 80, 82, 83, 85, 86, 87, 88, 89, 90, 91, 92, 92, 93, 94,
                 94, 95, 95, 96, 96, 96, 97, 97, 97, 98, 98, 98, 98, 98,
                 99, 99, 99, 99, 99, 99, 99, 99, 99, 99, 99, 100, 100, 100,
                 100, 100, 100, 100, 100>>
Sigmoid(z) ==
    IF z = NaN THEN NaN
    ELSE IF z >= 0 THEN SigmoidTable[Min2(z \div 10, 60) + 1]
    ELSE Unit - SigmoidTable[Min2((-z) \div 10, 60) + 1]

\* x = at.sqrt() * x_0 + (1 - at).sqrt() * e
LossInput(x_0, t, e) ==
    [i \in 1 .. Len(x_0) |->
        Add(Mul(Sqrt(loss_alpha(t[i])), x_0[i]), Mul(Sqrt(Unit - loss_alpha(t[i])), e[i]))]

MeanVec(v) == IF HasNaN(v) THEN NaN ELSE Quot(SumSeq(v), Len(v))

\* base_loss, weighted_adaptive_loss and noise_norm_loss, in this order
LossTerms(e, output, t) ==
    The({ <<MeanVec(sq),
            MeanVec([i \in 1 .. Len(e) |-> Mul(sq[i], Div(Unit, (t[i] + 1) * Unit))]),
            Norm([i \in 1 .. Len(e) |-> Sub(output[i], e[i])])>>
          : sq \in {[i \in 1 .. Len(e) |->
                       Mul(Sub(e[i], output[i]), Sub(e[i], output[i]))]} })

\* mutant: the sigmoid weights used as they are
KeepWeights(w) == w

\* each weight divided by total_weight
NormalizeWeights(w) ==
    The({ [i \in 1 .. 3 |-> Div(w[i], total_weight)]
          : total_weight \in {Add(Add(w[1], w[2]), w[3])} })

\* final_loss
WeightedSum(nw, terms) ==
    Add(Add(Mul(nw[1], terms[1]), Mul(nw[2], terms[2])), Mul(nw[3], terms[3]))

\* the noise tensors torch.randn_like may draw, per element
LossNoise == {-Unit, Unit \div 2, 2 * Unit}
LossImages == {0, Unit, -2 * Unit}

\* one get_loss call
GetLoss ==
    /\ los = NoLos
    /\ \E n \in BatchSizes, kind \in Models :
       \E x_0 \in [1 .. n -> LossImages], e \in [1 .. n -> LossNoise],
          t \in [1 .. n -> 0 .. Len(betas) - 1] :
       \E output \in {Model(kind, LossInput(x_0, t, e), t)} :
       \E terms \in {LossTerms(e, output, t)} :
       \E weights \in {[i \in 1 .. 3 |-> Sigmoid(terms[i])]} :
       \E normalized \in {NormalizeWeights(weights)} :
         los' = [called |-> TRUE, x_0 |-> x_0, t |-> t, e |-> e, model |-> kind,
                 terms |-> terms, weights |-> weights, normalized |-> normalized,
                 loss |-> WeightedSum(normalized, terms)]
    /\ UNCHANGED <<gvars, fwd, smp, hm, pro, trn>>

InitLoss ==
    /\ InitGen /\ cls = "noise" /\ rng = 0 /\ fwd = NoFwd /\ smp = NoSmp
    /\ hm = NoHm /\ pro = NoPro /\ los = NoLos /\ trn = NoTrn
NextLoss == GetLoss
SpecLoss == InitLoss /\ [][NextLoss]_vars

(***************************************************************************)
(* Claims about get_loss                                                   *)
(***************************************************************************)
MinTerm == Min2(los.terms[1], Min2(los.terms[2], los.terms[3]))
MaxTerm == Max2(los.terms[1], Max2(los.terms[2], los.terms[3]))
\* the rounding of three quotients and three products
LossSlack == Quot(3 * MaxTerm, Unit) + 3

\* C18: the three weights are the sigmoids of the three terms divided by
\* their sum; the normalised weights are positive and sum to 1; the loss
\* returned is the sum of each term times its normalised weight, and so lies
\* between the smallest and the largest of the three terms (all up to the
\* rounding of the arithmetic).
C18_LossIsConvexCombination ==
    los.called =>
        /\ \A i \in 1 .. 3 : los.weights[i] = Sigmoid(los.terms[i])
        /\ \A i \in 1 .. 3 :
             /\ los.normalized[i] > 0
             /\ los.normalized[i] =
                  Div(los.weights[i], los.weights[1] + los.weights[2] + los.weights[3])
        /\ Abs(los.normalized[1] + los.normalized[2] + los.normalized[3] - Unit) <= 3
        /\ los.loss = Mul(los.normalized[1], los.terms[1])
                    + Mul(los.normalized[2], los.terms[2])
                    + Mul(los.normalized[3], los.terms[3])
        /\ los.loss >= MinTerm - LossSlack
        /\ los.loss <= MaxTerm + LossSlack

\* three different terms, different weights, and a loss strictly between
\* the smallest and the largest term
C18_Witness ==
    /\ los.called
    /\ los.terms[1] # los.terms[2] /\ los.terms[2] # los.terms[3]
    /\ los.weights[1] # los.weights[3]
    /\ los.loss > MinTerm /\ los.loss < MaxTerm

\* ---------------------------------------------------------------------------
\* The adaptive scale and the noise history
\* ---------------------------------------------------------------------------

\* a get_noise step that asked for adaptive_gaussian
AdaptiveCall == ncalls' = ncalls + 1 /\ call'.type = "adaptive_gaussian"

\* torch.clamp(signal_std * adaptation_rate, min_std, max_std)
ClampedSignalStd(signal_std) ==
    Clamp(Mul(signal_std, adaptation_rate), min_std, max_std)

\* non-empty histories holding other tensors than hist does
OtherHistories(hist) ==
    {h \in {<<k>> : k \in 0 .. MaxCalls} \cup {Append(hist, 0)} : h # hist}

\* C19: an adaptive_gaussian call scales by 1 on an empty history; on a
\* non-empty history it scales by std(x) * adaptation_rate clamped into
\* [min_std, max_std], and that scale depends on the tensors stored in the
\* history: a history holding other tensors gives another scale for the same x.
C19_ScaleDependsOnHistory ==
    [][AdaptiveCall =>
        IF noise_history = <<>>
        THEN ret'.std = Unit
        ELSE \E signal_std \in SignalStds :
                /\ ret'.std = ClampedSignalStd(signal_std)
                /\ \E h \in OtherHistories(noise_history) :
                      calculate_adaptive_std(h, signal_std) # ret'.std]_vars

\* what the code does: current_std is computed from the history and never read,
\* so only the emptiness of the history reaches the scale
C19_ScaleFromEmptinessOnly ==
    [][AdaptiveCall =>
        /\ ret'.std \in {IF noise_history = <<>> THEN Unit
                         ELSE ClampedSignalStd(s) : s \in SignalStds}
        /\ \A s \in SignalStds : \A h \in OtherHistories(noise_history) :
              calculate_adaptive_std(h, s) = ClampedSignalStd(s)]_vars

\* an adaptive call was made on a history that already held tensors
C19_AdaptiveOnNonEmptyHistory ==
    ncalls > 1 /\ call.type = "adaptive_gaussian" /\ ret.std # Unit

\* ---------------------------------------------------------------------------
\* Exceptions of the collaborators: the denoiser and the feature extractor
\* ---------------------------------------------------------------------------

\* what the denoiser raises
Exceptions == {"RuntimeError", "MemoryError"}
NoError == "none"

\* mutant: the loop catches the exception and returns what it has collected
SwallowedModelError(s, exc) == [s EXCEPT !.pc = "returned"]

\* et = model(xt, t) sits in no try block: the exception leaves the sampler as
\* it was raised, and return xs, x0_preds is not reached
ModelError(s, exc) == [s EXCEPT !.pc = "raised", !.error = exc]

\* a pass through the loop whose model call raises
SamplerRaise ==
    /\ smp.active
    /\ smp.pc = "loop"
    /\ smp.k < SeqLen
    /\ ModelRaises(smp.model, smp.k)
    /\ smp' = ModelError(smp, smp.exc)
    /\ UNCHANGED <<gvars, fwd, xvars>>

\* the sampler has ended, by return or by exception
SamplerEnded == smp.pc \in {"returned", "raised"}

\* the caller goes on to feature_heat_map once the sampler has ended
FeatureHeatMapAfterSampling == SamplerEnded /\ FeatureHeatMap

\* a sampler run with a failing denoiser, then a heat-map call
InitErrors ==
    /\ InitGen /\ cls = "noise" /\ rng = 0
    /\ fwd = NoFwd /\ IdleX
    /\ \E variant \in {"DA", "my"} :
       \E seq \in SeqLists(variant), kind \in RaisingModels, exc \in Exceptions :
         smp = [active |-> TRUE, pc |-> "loop", variant |-> variant, seq |-> seq,
                eta |-> 0, eta2 |-> 0, model |-> kind, k |-> 0,
                exc |-> exc, error |-> NoError,
                A |-> NewRun(<<2 * Unit, 0>>, <<Unit, Unit>>),
                B |-> NewRun(<<2 * Unit, 0>>, <<Unit, 3 * Unit>>)]
NextErrors ==
    SamplerStep \/ SamplerRaise \/ SamplerReturn \/ FeatureHeatMapAfterSampling
SpecErrors == InitErrors /\ [][NextErrors]_vars

\* some model call of the run raises
DenoiserRaises == \E i \in 0 .. SeqLen - 1 : ModelRaises(smp.model, i)

\* a run whose denoiser raises returns no trajectory, and the error that
\* reaches the caller is the one the denoiser raised
SamplerPropagates ==
    /\ smp.pc = "returned" => ~DenoiserRaises /\ smp.error = NoError
    /\ smp.pc = "loop" => smp.error = NoError
    /\ smp.pc = "raised" => ModelRaises(smp.model, smp.k) /\ smp.error = smp.exc

\* a heat-map call whose feature extractor raises returns no map, and the
\* error that reaches the caller is the extractor's
FeatureHeatMapPropagates ==
    (hm.op = "feature" /\ hm.fe = "raise") =>
        hm.raised /\ hm.error = FeatureDistanceError("raise", {}, FALSE) /\ hm.out = <<>>

\* C20: an exception raised by the denoiser inside DA_generalized_steps or
\* my_generalized_steps, or by the feature extractor inside feature_heat_map,
\* is not caught: it reaches the caller unchanged, and the function returns no
\* trajectory and no map.
C20_ExceptionsPropagate == SamplerPropagates /\ FeatureHeatMapPropagates

\* the denoiser raised on its second call and the feature extractor raised too
C20_Witness ==
    /\ smp.pc = "raised" /\ smp.k = 1 /\ smp.error = "MemoryError"
    /\ hm.op = "feature" /\ hm.fe = "raise" /\ hm.raised

\* both samplers end by exception
C20_BothVariantsRaise ==
    smp.pc = "raised" /\ smp.variant = "my" /\ smp.model = "raise"

\* ---------------------------------------------------------------------------
\* The adaptive scale of the samplers
\* ---------------------------------------------------------------------------

\* tensors the scale is tried on, beside those the runs produce: of norm 0,
\* small, large and holding a NaN
ScaleInputs ==
    {<<0, 0>>, <<1, 0>>, <<Unit, -Unit>>, <<30 * Unit, 40 * Unit>>, <<NaN, Unit>>}

ScaleInRange(scale) == scale # NaN /\ scale >= 50 /\ scale <= 150

\* the inputs of the last iteration of a run
LastFed(run) == run.fed[Len(run.fed)]
LastT(run) == run.ts[Len(run.ts)]
LastEt(run) == Model(smp.model, LastFed(run), LastT(run))

\* C21: in every iteration of both samplers the scale is computed from that
\* iteration's own x_i and e_t, it lies in [0.5, 1.5] for every input (also
\* for e_t or x_i of norm 0), and the error correction of the iteration uses
\* eta2 times this scale.
C21_ScaleRecomputedAndClamped ==
    /\ \A xt \in ScaleInputs, et \in ScaleInputs :
         ScaleInRange(compute_adaptive_noise_scale(xt, et))
    /\ (smp.active /\ smp.k > 0) =>
         \A run \in Runs :
           /\ run.scale = compute_adaptive_noise_scale(LastFed(run), LastEt(run))
           /\ ScaleInRange(run.scale)
           /\ \A b \in BatchOf(run) :
                run.x0_preds[Len(run.x0_preds)][b] =
                  ElementStep(smp.variant, smp.k - 1, smp.eta, Mul(smp.eta2, run.scale),
                              run.at[b], run.at_next[b], LastFed(run)[b], run.y[b],
                              LastEt(run)[b], run.g[b]).x0_t

\* a second iteration whose scale is not the one of the first iteration,
\* with the error correction switched on
C21_Witness ==
    /\ smp.active /\ smp.k = 2 /\ smp.eta2 = Unit
    /\ smp.A.scale # compute_adaptive_noise_scale(
                        smp.A.fed[1], Model(smp.model, smp.A.fed[1], smp.A.ts[1]))

\* the scale is clamped from below in some iteration and not in another
C21_BothSidesOfClamp ==
    smp.active /\ smp.k > 0 /\ smp.A.scale = 50 /\ smp.B.scale > 50

\* ---------------------------------------------------------------------------
\* The normalisation inside fuse_heat_maps
\* ---------------------------------------------------------------------------

\* maps_to_fuse as it is handed to scale_values_between_zero_and_one
MapsToFuse(recon_map, feature_map, latent_maps, deep_supervision) ==
    IF deep_supervision
    THEN <<apply_deep_supervision(recon_map), apply_deep_supervision(feature_map),
           apply_deep_supervision(SumMaps(latent_maps))>>
    ELSE <<recon_map, feature_map, SumMaps(latent_maps)>>

\* the three maps of the call in hm, before and after the normalisation
CallMaps == MapsToFuse(hm.recon_map, hm.feature_map, hm.latent_maps, hm.deep_supervision)
CallNormalized == scale_values_between_zero_and_one(CallMaps)

\* C22: in fuse_heat_maps each of the three maps is min-max normalised
\* independently of the other two: the normalised reconstruction map is the
\* same whatever the feature map and the latent list are, and each
\* normalised map has minimum 0 and maximum 1.
C22_NormalisedIndependently ==
    Fused =>
        /\ \A feature_map \in Maps, latent_maps \in LatentLists \ {<<>>} :
             scale_values_between_zero_and_one(
                 MapsToFuse(hm.recon_map, feature_map, latent_maps,
                            hm.deep_supervision))[1] = CallNormalized[1]
        /\ \A i \in 1 .. 3 :
             MinSeq(CallNormalized[i]) = 0 /\ MaxSeq(CallNormalized[i]) = One

\* what the code does: one minimum and one maximum over the three maps
\* together, so every normalised value is in [0, 1] and only the smallest
\* value of the three maps is sent to 0
C22_NormalisedJointly ==
    Fused =>
        /\ \A i \in 1 .. 3 :
             /\ CallNormalized[i] =
                  MinMax(CallMaps[i],
                         MinSeq(<<MinSeq(CallMaps[1]), MinSeq(CallMaps[2]), MinSeq(CallMaps[3])>>),
                         MaxSeq(<<MaxSeq(CallMaps[1]), MaxSeq(CallMaps[2]), MaxSeq(CallMaps[3])>>))
             /\ \A p \in 1 .. 4 : CallNormalized[i][p] >= 0 /\ CallNormalized[i][p] <= One
        /\ \E i \in 1 .. 3 : MinSeq(CallNormalized[i]) = 0

\* the failing input: a reconstruction map whose normalised maximum is not 1
\* although its own range is wide, because the feature map reaches higher
C22_MaximumBelowOne ==
    /\ Fused /\ ~hm.deep_supervision
    /\ hm.recon_map = NarrowMap /\ hm.feature_map = WideMap
    /\ MaxSeq(CallNormalized[1]) < One \div 2 + One \div 5
    /\ MinSeq(CallNormalized[1]) > 0

\* ---------------------------------------------------------------------------
\* The adaptive fusion weights
\* ---------------------------------------------------------------------------

\* torch.mean(torch.abs(m))
MeanAbs(m) == Quot(SumSeq([p \in 1 .. 4 |-> Abs(m[p])]), 4)

\* the weights of the call in hm, in thousandths
CallWeights == calculate_weights(CallNormalized)

HasRegion(mask) == \E p \in ProPixels : mask[p] = 1

\* the FPR column after df[df["fpr"] < 0.3], for a map that is not constant
KeptFpr(mask, amap, num_th) ==
    The({ [i \in 1 .. Len(kept) |-> kept[i].fpr]
          : kept \in {KeepLowFpr(
                The({ [k \in 1 .. Len(ths) |-> ProRow(amaps, mask, regions, ths[k])]
                      : amaps \in {NormalisedAmap(amap)}, regions \in {Regions(mask)},
                        ths \in {Thresholds(0, Unit, Quot(Unit, num_th))} }))} })

\* the column after df["fpr"] / df["fpr"].max()
RenormalisedFpr(fpr) == [i \in 1 .. Len(fpr) |-> Div(fpr[i], MaxSeq(fpr))]

\* C24: compute_pro keeps the rows with FPR below 0.3 and divides their FPR
\* by the largest one kept, so that every FPR kept lies in [0, 1] and the
\* largest is 1; for every input with at least one ground-truth region the
\* score returned is a finite number in [0, 1].
C24_ScoreFiniteInUnitRange ==
    (pro.called /\ HasRegion(pro.mask)) =>
        /\ ~pro.raised
        /\ IsNum(pro.score) /\ pro.score >= 0 /\ pro.score <= Unit
        /\ \A x \in {RenormalisedFpr(KeptFpr(pro.mask, pro.amap, pro.num_th))} :
             /\ \A i \in 1 .. Len(x) : IsNum(x[i]) /\ x[i] >= 0 /\ x[i] <= Unit
             /\ MaxSeq(x) = Unit

\* what holds: when a score is returned and is a number, it lies in [0, 1],
\* the rows kept have FPR below 0.3, and after the division the largest is 1
C24_ScoreInUnitRangeWhenNumber ==
    (pro.called /\ ~pro.raised /\ IsNum(pro.score)) =>
        /\ pro.score >= 0 /\ pro.score <= Unit
        /\ \A fpr \in {KeptFpr(pro.mask, pro.amap, pro.num_th)} :
             /\ \A i \in 1 .. Len(fpr) : fpr[i] >= 0 /\ fpr[i] < Quot(3 * Unit, 10)
             /\ MaxSeq(RenormalisedFpr(fpr)) = Unit

\* inputs with a region and a map that is not constant on which no number
\* is returned: NaN, and an exception
C24_NaNReturned ==
    pro.called /\ HasRegion(pro.mask) /\ ~pro.raised /\ pro.score = NaN
C24_RaisedOnGradedMap ==
    /\ pro.called /\ HasRegion(pro.mask) /\ pro.raised
    /\ MinSeq([p \in 1 .. Side * Side |-> pro.amap[p]]) # MaxSeq([p \in 1 .. Side * Side |-> pro.amap[p]])

\* ---------------------------------------------------------------------------
\* The module-level functions of noise.py and forward_process.py
\* ---------------------------------------------------------------------------
MaxModuleCalls == 2      \* module-level calls explored in a row

\* beta[:stop] with Python's slice rules: a negative stop counts from the end
SliceTo(beta, stop) ==
    SubSeq(beta, 1, IF stop < 0 THEN Max2(Len(beta) + stop, 0) ELSE Min2(stop, Len(beta)))

\* torch.prod: 1 on an empty tensor
RECURSIVE Prod(_)
Prod(q) ==
    IF q = <<>> THEN Unit ELSE Mul(Prod(SubSeq(q, 1, Len(q) - 1)), q[Len(q)])

\* mutant: the slice stops one entry early, beta[:t]
ComputeAlphaExclusive(beta, t) ==
    Prod([k \in 1 .. Len(SliceTo(beta, t)) |-> Unit - beta[k]])

\* AdaptiveForwardDiffusion.compute_alpha: torch.prod(1. - beta[:t + 1])
AdaptiveForwardDiffusion_compute_alpha(beta, t) ==
    Prod([k \in 1 .. Len(SliceTo(beta, t + 1)) |-> Unit - beta[k]])

\* mutant: one generator kept by the module and used by every call
SharedHistory == noise_history

\* AdaptiveNoiseGenerator.__init__: self.noise_history = []
NewHistory == <<>>

\* x_t = x_t_ti + sqrt_alpha_diff * x_0 + sqrt_one_minus_alpha_diff * noise,
\* the two coefficients being scalars
TiStep(t, ti, x_t_ti, x_0, beta, noise) ==
    The({ [i \in 1 .. Len(x_0) |-> [p \in 1 .. Len(x_0[i]) |->
              Add(Add(x_t_ti[i][p],
                      Mul(Sub(Sqrt(alpha_t), Sqrt(alpha_t_ti)), x_0[i][p])),
                  Mul(Sub(Sqrt(Unit - alpha_t), Sqrt(Unit - alpha_t_ti)), noise[i][p]))]]
          : alpha_t \in {AdaptiveForwardDiffusion_compute_alpha(beta, t)},
            alpha_t_ti \in {AdaptiveForwardDiffusion_compute_alpha(beta, t - ti)} })

ModuleNoiseTypes == {"adaptive_gaussian", "uniform"}
ModuleImages == {<< <<0, 0>> >>, << <<Unit, -150>> >>}
ModuleGauss == {<< <<Unit, Unit>> >>, << <<-Unit, Unit \div 2>> >>}

\* the generator's part of a module-level call: the generator built by the
\* call sees the history hist, draws, and appends
GeneratorCall(c, hist, type, x, seed) ==
    /\ \E r \in {Reseed(rng, seed)} :
       \E gen \in {MakeNoise(c, hist, ncalls + 1, type, ShapeOf(x), TensorStd(x), r)} :
         /\ ret' = gen
         /\ noise_history' = PushHistory(hist, gen.id)
         /\ rng' = (r + 1) % RngMod
    /\ cls' = c
    /\ warned' = Warns(c, type)
    /\ call' = [type |-> type, shape |-> ShapeOf(x), seen |-> hist]
    /\ ncalls' = ncalls + 1

\* get_noise(x, config, noise_type, seed) of noise.py
ModuleGetNoise ==
    /\ ncalls < MaxModuleCalls
    /\ \E type \in ModuleNoiseTypes, x \in ModuleImages, seed \in {NoSeed, 0} :
         GeneratorCall("noise", NewHistory, type, x, seed)
    /\ UNCHANGED <<fwd, smp, xvars>>

\* forward_diffusion_sample(x_0, t, constant_dict, config, noise_type)
ModuleForwardDiffusionSample ==
    /\ ncalls < MaxModuleCalls
    /\ \E type \in ModuleNoiseTypes, x_0 \in ModuleImages, z \in ModuleGauss,
          t \in 0 .. ScheduleLen - 1 :
         /\ GeneratorCall("forward_process", NewHistory, type, x_0, NoSeed)
         /\ \E noise \in {ScaleAll(z, ret'.std)} :
              fwd' = [called |-> TRUE, op |-> "sample", x_0 |-> x_0, t |-> <<t>>,
                      x_t |-> NoisedImage(x_0, <<t>>, noise), noise |-> noise]
    /\ UNCHANGED <<smp, xvars>>

\* forward_ti_steps(t, ti, x_t_ti, x_0, beta, config, noise_type)
ModuleForwardTiSteps ==
    /\ ncalls < MaxModuleCalls
    /\ \E type \in ModuleNoiseTypes, x_t_ti \in ModuleImages, x_0 \in ModuleImages,
          z \in ModuleGauss, t \in 0 .. Len(betas) - 1 :
       \E ti \in 0 .. t + 1 :
         /\ GeneratorCall("forward_process", NewHistory, type, x_t_ti, NoSeed)
         /\ \E noise \in {ScaleAll(z, ret'.std)} :
              fwd' = [called |-> TRUE, op |-> "ti", t |-> t, ti |-> ti,
                      x_t_ti |-> x_t_ti, x_0 |-> x_0, noise |-> noise,
                      x_t |-> TiStep(t, ti, x_t_ti, x_0, betas, noise)]
    /\ UNCHANGED <<smp, xvars>>

InitModule ==
    /\ InitGen /\ cls = "noise" /\ rng = 0
    /\ fwd = NoFwd /\ smp = NoSmp /\ IdleX
NextModule == ModuleGetNoise \/ ModuleForwardDiffusionSample \/ ModuleForwardTiSteps
SpecModule == InitModule /\ [][NextModule]_vars

\* the cumulative products of 0.9, 0.8, 0.7, 0.6 to two decimals
AlphaTable == <<90, 72, 50, 30>>

\* C25: the cumulative alpha at step t is the product of (1 - beta[k]) for
\* k = 0 .. t, t included: compute_alpha of forward_process and the alpha of
\* get_loss agree on every valid t, and forward_ti_steps with ti = 0 returns
\* x_t_ti unchanged.
C25_AlphaAgreesAndZeroStepIsIdentity ==
    /\ \A t \in 0 .. Len(betas) - 1 :
         /\ AdaptiveForwardDiffusion_compute_alpha(betas, t) = AlphaTable[t + 1]
         /\ AdaptiveForwardDiffusion_compute_alpha(betas, t) = loss_alpha(t)
    /\ (fwd.called /\ fwd.op = "ti" /\ fwd.ti = 0) => fwd.x_t = fwd.x_t_ti

\* a forward_ti_steps call with ti = 0 on a non-zero image with non-zero noise
C25_Witness ==
    /\ fwd.called /\ fwd.op = "ti" /\ fwd.ti = 0 /\ fwd.t = 2
    /\ fwd.x_0 = << <<Unit, -150>> >> /\ fwd.noise = << <<-Unit, Unit \div 2>> >>
    /\ fwd.x_t_ti = << <<Unit, -150>> >>

\* with ti > 0 the image changes
C25_StepChangesImage ==
    fwd.called /\ fwd.op = "ti" /\ fwd.ti = 2 /\ fwd.x_t # fwd.x_t_ti

\* C26: across any sequence of calls to the module-level get_noise,
\* forward_diffusion_sample and forward_ti_steps, the generator a call
\* builds has an empty history when the adaptive standard deviation is
\* computed, so adaptive_gaussian noise is scaled by 1, and the history a
\* call leaves holds that call's noise alone: no earlier call's noise.
C26_FreshGeneratorPerCall ==
    ncalls > 0 =>
        /\ call.seen = <<>>
        /\ call.type = "adaptive_gaussian" => ret.std = Unit
        /\ noise_history = <<ret.id>>

\* a second adaptive_gaussian call, after a call of the other module, on an
\* image whose clamped std would not be 1
C26_Witness ==
    /\ ncalls = 2 /\ fwd.called /\ cls = "noise"
    /\ call.type = "adaptive_gaussian" /\ call.shape = <<1, 2>>
    /\ ClampedSignalStd(TensorStd(<< <<Unit, -150>> >>)) # Unit
    /\ ret.std = Unit

\* ---------------------------------------------------------------------------
\* Seeded calls on one generator
\* ---------------------------------------------------------------------------
MaxSeededCalls == 3      \* get_noise calls explored around the two seeded ones

\* what a get_noise call does to the generator and the random state
GeneratorStep(type, shape, signal_std, seed) ==
    \E r \in {Reseed(rng, seed)} :
    \E noise \in {MakeNoise(cls, noise_history, ncalls + 1, type, shape, signal_std, r)} :
      /\ ret' = noise
      /\ warned' = Warns(cls, type)
      /\ noise_history' = PushHistory(noise_history, noise.id)
      /\ rng' = (r + 1) % RngMod
      /\ ncalls' = ncalls + 1

\* the first of the two calls compared: get_noise(x, noise_type, seed) with
\* a seed; call keeps its arguments and what it returned
SeededCall ==
    /\ ncalls < MaxSeededCalls
    /\ call = NoCall
    /\ \E type \in NoiseTypes, seed \in Seeds \ {NoSeed}, shape \in Shapes,
          signal_std \in SignalStds :
         /\ GeneratorStep(type, shape, signal_std, seed)
         /\ call' = [type |-> type, shape |-> shape, seed |-> seed,
                     signal_std |-> signal_std, first |-> ret',
                     seen |-> Len(noise_history), again |-> FALSE]
    /\ UNCHANGED <<cls, fwd, smp, xvars>>

\* any other get_noise call on the generator, before or between the two
OtherCall ==
    /\ ncalls < MaxSeededCalls
    /\ IF call = NoCall THEN TRUE ELSE ~call.again
    /\ \E type \in NoiseTypes, seed \in Seeds, shape \in Shapes,
          signal_std \in SignalStds :
         GeneratorStep(type, shape, signal_std, seed)
    /\ UNCHANGED <<cls, call, fwd, smp, xvars>>

\* the second call: the same x, noise_type and seed as the first
SeededCallAgain ==
    /\ ncalls < MaxSeededCalls
    /\ call # NoCall
    /\ ~call.again
    /\ GeneratorStep(call.type, call.shape, call.signal_std, call.seed)
    /\ call' = [call EXCEPT !.again = TRUE]
    /\ UNCHANGED <<cls, fwd, smp, xvars>>

InitSeeded == InitGen /\ fwd = NoFwd /\ smp = NoSmp /\ IdleX
NextSeeded == SeededCall \/ OtherCall \/ SeededCallAgain
SpecSeeded == InitSeeded /\ [][NextSeeded]_vars

\* the tensor values of a noise record: distribution, draw and scale
NoiseValues(noise) == <<noise.dist, noise.draw, noise.std>>

\* C27: two get_noise calls on one generator with the same x, noise_type and
\* seed (not None) return identical noise, whatever calls were made on the
\* generator in between, also for adaptive_gaussian when the first call saw
\* an empty history.
C27_SeededCallsAgree ==
    (call # NoCall /\ call.again) => NoiseValues(ret) = NoiseValues(call.first)

\* what holds: the same distribution and the same draw, and the same scale
\* unless the type is adaptive_gaussian and the first call saw an empty history
C27_SameDrawScaleMayDiffer ==
    (call # NoCall /\ call.again) =>
        /\ ret.dist = call.first.dist
        /\ ret.draw = call.first.draw
        /\ (call.type # "adaptive_gaussian" \/ call.seen > 0) => ret.std = call.first.std
        /\ (call.type = "adaptive_gaussian" /\ call.seen = 0) =>
             /\ call.first.std = Unit
             /\ ret.std = ClampedSignalStd(call.signal_std)

\* the failing input: adaptive_gaussian, first call on an empty history
C27_ScaleDiffers ==
    /\ call # NoCall /\ call.again /\ call.type = "adaptive_gaussian"
    /\ call.first.std = Unit /\ ret.std = max_std

\* seeded calls of another type agree after calls in between
C27_OtherTypesAgree ==
    /\ call # NoCall /\ call.again /\ call.type = "uniform"
    /\ ret.id > call.first.id + 1 /\ NoiseValues(ret) = NoiseValues(call.first)

\* ---------------------------------------------------------------------------
\* The two generator classes compared
\* ---------------------------------------------------------------------------

\* C28: for each of adaptive_gaussian, gaussian, uniform, laplace, mixture
\* and perlin the generator of forward_process.py draws from the distribution
\* the generator of noise.py draws from (uniform noise is uniform on
\* [-1, 1]), and it updates its history in the same way.
C28_GeneratorsAgree ==
    (ncalls > 0 /\ call.type \in KnownTypes) =>
        /\ ret.dist = NoiseDist(call.type)
        /\ call.type = "uniform" => ret.dist = "uniform"
        /\ noise_history = LastCalls(ncalls)

\* what holds: the two classes agree on adaptive_gaussian and gaussian and on
\* the history; every other known type is Gaussian in forward_process.py
C28_AgreeOnGaussianTypesOnly ==
    ncalls > 0 =>
        /\ call.type \in {"adaptive_gaussian", "gaussian"} => ret.dist = NoiseDist(call.type)
        /\ noise_history = LastCalls(ncalls)
        /\ cls = "noise" /\ call.type \in KnownTypes => ret.dist = call.type
        /\ cls = "forward_process" /\ call.type # "adaptive_gaussian" =>
             ret.dist = "gaussian" /\ ret.std = Unit

\* the failing input: uniform asked of the forward_process generator
C28_UniformIsGaussian ==
    ncalls > 0 /\ cls = "forward_process" /\ call.type = "uniform" /\ ret.dist = "gaussian"

\* ---------------------------------------------------------------------------
\* Resuming from a checkpoint
\* ---------------------------------------------------------------------------

\* the optimizer was built and the resume block has run
Opened == trn.pc # "start" /\ build_optimizer(trn.optimizer_name).error = "none"

\* the highest epoch number among the checkpoint files of the directory
HighestEpoch(dir) == LatestCheckpoint(CheckpointFiles(dir)).epoch

\* C29: when the directory holds checkpoint files written by trainer
\* (..._<epoch>.pth, ..._best.pth), a new run loads the model and optimizer
\* state of the checkpoint of the highest epoch and trains from that epoch
\* plus one; when it holds no .pth file it starts from epoch 0.
C29_ResumesFromLatest ==
    Opened =>
        IF CheckpointFiles(trn.dir) = {}
        THEN ~trn.model_loaded /\ ~trn.optimizer_loaded /\ trn.start_epoch = 0
        ELSE /\ trn.error # "ValueError: invalid literal for int()"
             /\ trn.model_loaded /\ trn.optimizer_loaded
             /\ trn.start_epoch = HighestEpoch(trn.dir) + 1
             /\ trn.pc = "batch" => trn.epoch >= trn.start_epoch

\* what the code does: with any .pth file in the directory the sort key
\* raises and nothing is loaded; every run that trains starts from epoch 0
C29_NoResume ==
    /\ ~trn.model_loaded /\ ~trn.optimizer_loaded /\ trn.start_epoch = 0
    /\ (Opened /\ CheckpointFiles(trn.dir) # {}) =>
         trn.pc = "raised" /\ trn.error = "ValueError: invalid literal for int()"
    /\ (Opened /\ CheckpointFiles(trn.dir) = {}) =>
         trn.error # "ValueError: invalid literal for int()"

\* the failing input: a directory holding the epoch-0 checkpoint of an
\* earlier run
C29_RaisedOnOwnCheckpoint ==
    /\ trn.pc = "raised" /\ trn.dir = {EpochFile(0)}
    /\ trn.error = "ValueError: invalid literal for int()"

\* a run writes such a file
C29_RunWritesEpochFile == trn.pc = "returned" /\ EpochFile(0) \in trn.written

\* ---------------------------------------------------------------------------
\* build_optimizer
\* ---------------------------------------------------------------------------

\* parameter names as their dotted components
ParamNames ==
    {<<"conv", "weight">>, <<"conv", "bias">>, <<"LayerNorm", "weight">>,
     <<"LayerNorm", "bias">>, <<"norm", "weight">>}
no_decay == {<<"bias">>, <<"LayerNorm", "weight">>, <<"LayerNorm", "bias">>}

\* nd in n, on whole components
Contains(n, nd) ==
    \E i \in 1 .. Len(n) - Len(nd) + 1 : SubSeq(n, i, i + Len(nd) - 1) = nd

\* the weight decay of a parameter in the two groups handed to AdamW
AdamWDecay(n, weight_decay) ==
    IF \E nd \in no_decay : Contains(n, nd) THEN 0 ELSE weight_decay

\* C30: build_optimizer returns an optimizer for every value of
\* config.model.optimizer: Adam for "Adam", AdamW (weight decay 0 on bias and
\* LayerNorm parameters) for "AdamW", and a default for any other name
\* instead of failing.
C30_OptimizerForEveryName ==
    trn.pc # "start" =>
        /\ trn.error # "UnboundLocalError"
        /\ trn.optimizer_name = "Adam" => trn.optimizer = "Adam"
        /\ trn.optimizer_name = "AdamW" =>
             /\ trn.optimizer = "AdamW"
             /\ \A n \in ParamNames :
                  AdamWDecay(n, 5) = IF n = <<"conv", "weight">> \/ n = <<"norm", "weight">>
                                     THEN 5 ELSE 0
        /\ trn.optimizer_name \notin {"Adam", "AdamW"} => trn.optimizer \in {"Adam", "AdamW"}

\* what holds: the two known names give their optimizer, any other name
\* ends the call with UnboundLocalError and no optimizer
C30_UnknownNameFails ==
    trn.pc # "start" =>
        /\ trn.optimizer_name \in {"Adam", "AdamW"} =>
             trn.optimizer = trn.optimizer_name /\ trn.error # "UnboundLocalError"
        /\ trn.optimizer_name \notin {"Adam", "AdamW"} =>
             trn.pc = "raised" /\ trn.error = "UnboundLocalError" /\ trn.optimizer = "none"
        /\ \A n \in ParamNames :
             AdamWDecay(n, 5) = IF n = <<"conv", "weight">> \/ n = <<"norm", "weight">>
                                THEN 5 ELSE 0

\* the failing input
C30_RaisedOnSGD ==
    trn.pc = "raised" /\ trn.optimizer_name = "SGD" /\ trn.error = "UnboundLocalError"

====
